---- MODULE Spec2Model ----
(***************************************************************************)
(* AquaScope dashboard (src/app.js, version 1.0.2): the polling scheduler  *)
(* and view state of the overview and monitoring pages (Spec), and the     *)
(* feeding page with its create, edit and delete operations (SpecFeeding). *)
(*                                                                         *)
(* The browser runs one handler at a time; a handler runs until it returns *)
(* or reaches an await on fetch().  Every action below is one such run:    *)
(* an event handler up to its first await, or the continuation of an       *)
(* async function from the settling of its fetch to its end, together with *)
(* the continuation of the function awaiting it.                           *)
(***************************************************************************)
EXTENDS Integers, FiniteSets, Sequences, Bags, TLC

VARIABLES
    dom,                  \* ids of the elements the loaded page contains
    currentPage,          \* app.js:21
    currentTimeline,      \* app.js:16
    charts,               \* app.js:17, the reading window the charts draw
    timers,               \* the browser's pending timers, in the order they fire
    isLoadingSensorData,  \* app.js:20
    currentProfile,       \* window.currentProfile, app.js:234
    placeholders,         \* the chart placeholders carry the class "show"
    alerts,               \* content of #alertsList
    loading,              \* #loadingIndicator carries the class "show"
    net,                  \* bag of the fetch() calls that have not settled
    initPc,               \* position of initializeApplication
    tornDown,             \* the beforeunload handler has run
    sent,                 \* the fetch() calls issued by the last handler run
    pendingView,          \* rows of #pendingFeedingsTableBody
    historyView,          \* rows of #feedingTableBody
    message,              \* the message the last step wrote, and the element it wrote it to
    disabled,             \* the `disabled` property of the buttons that start a call
    localStorage,         \* the items feederTime and feederQty
    editModal,            \* #editPendingModal: class "show", hidden original timestamp
    deleteModal,          \* #deletePendingModal: class "show", dataset.timestamp
    backend               \* the feeding events the service holds

vars == <<dom, currentPage, currentTimeline, charts, timers, isLoadingSensorData,
          currentProfile, placeholders, alerts, loading, net, initPc, tornDown, sent,
          pendingView, historyView, message, disabled, localStorage, editModal,
          deleteModal, backend>>

\* Bounds of the model.
MaxInFlight == 2     \* fetch() calls in flight at once, per resource
MaxTimers == 2       \* pending retry timers per resource
MaxFeedingCalls == 2 \* feeding-events calls in flight at once

Timelines == {"day", "week", "month"}
Resources == {"tankProfile", "sensorData"}

\* The documents of the pages that poll sensor data (overview and
\* monitoring), by the elements the handlers look up: the chart canvases
\* with their placeholders, and the alert list.
DomChoices == SUBSET {"temperatureChart", "alertsList"}

\* app.js:24-28
TIMELINE_CONFIG(t) ==
    CASE t = "day"   -> [period |-> "1d"]
      [] t = "week"  -> [period |-> "1w"]
      [] t = "month" -> [period |-> "1m"]

\* Bodies GET /tank-profile can answer with; app.js:190-199 is the record shown on failure.
ServerProfiles == {"profileA", "profileB"}
PlaceholderProfile == "placeholder"
TankOutcomes == ServerProfiles \cup {"error"}

\* What GET /readings can answer: items with readings, items empty, a body
\* without an items array, or a failure of fetch / a non-2xx status.
SensorOutcomes == {"data", "empty", "invalid", "error"}

\* app.js:58-67
detectCurrentPage(d) ==
    IF "temperatureChart" \in d THEN "monitoring"
    ELSE IF "feedingHistorySection" \in d THEN "feeding"
    ELSE "overview"

\* The program's state as one record, so that handlers compose as functions.
\* A handler run starts with nothing sent, written or thrown; `thrown` is
\* set where an async function rejects towards the function awaiting it.
S == [dom |-> dom, currentPage |-> currentPage, currentTimeline |-> currentTimeline,
      charts |-> charts, timers |-> timers,
      isLoadingSensorData |-> isLoadingSensorData, currentProfile |-> currentProfile,
      placeholders |-> placeholders, alerts |-> alerts, loading |-> loading,
      net |-> net, initPc |-> initPc, tornDown |-> tornDown, sent |-> {},
      thrown |-> FALSE,
      pendingView |-> pendingView, historyView |-> historyView,
      message |-> [el |-> "", type |-> "", text |-> ""],
      disabled |-> disabled, localStorage |-> localStorage,
      editModal |-> editModal, deleteModal |-> deleteModal]

Apply(t) ==
    /\ dom' = t.dom
    /\ currentPage' = t.currentPage
    /\ currentTimeline' = t.currentTimeline
    /\ charts' = t.charts
    /\ timers' = t.timers
    /\ isLoadingSensorData' = t.isLoadingSensorData
    /\ currentProfile' = t.currentProfile
    /\ placeholders' = t.placeholders
    /\ alerts' = t.alerts
    /\ loading' = t.loading
    /\ net' = t.net
    /\ initPc' = t.initPc
    /\ tornDown' = t.tornDown
    /\ sent' = t.sent
    /\ pendingView' = t.pendingView
    /\ historyView' = t.historyView
    /\ message' = t.message
    /\ disabled' = t.disabled
    /\ localStorage' = t.localStorage
    /\ editModal' = t.editModal
    /\ deleteModal' = t.deleteModal

\* Every timer of the program has the same delay (60000 ms, app.js:202, 286
\* and 1509), so the pending timers fire in the order they were set: `timers`
\* is that queue.  An entry names what it runs (the refresh callback or the
\* loader of a resource) and whether the variable that received its handle
\* (refreshInterval, retryTimeouts[res]) still holds it.
TimerEntry(res, tracked) == [res |-> res, tracked |-> tracked]

PendingTimers(t, res) ==
    Cardinality({i \in 1..Len(t.timers) : t.timers[i].res = res})

InFlight(n, res) == {r \in BagToSet(n) : r.res = res}
CountInFlight(n, res) ==
    BagCardinality([r \in InFlight(n, res) |-> CopiesIn(r, n)])

FeedingResources ==
    {"pendingFeedings", "feedingEvents", "createFeeding", "updateFeeding", "deleteFeeding"}

FeedingCalls(n) == {r \in BagToSet(n) : r.res \in FeedingResources}
CountFeedingCalls(n) ==
    BagCardinality([r \in FeedingCalls(n) |-> CopiesIn(r, n)])

\* The caps the bounds put on a handler's result.
Bounded(t) ==
    /\ \A res \in Resources : CountInFlight(t.net, res) <= MaxInFlight
    /\ \A res \in Resources : PendingTimers(t, res) <= MaxTimers
    /\ CountFeedingCalls(t.net) <= MaxFeedingCalls

\* A handler run of the page: the service's events are not touched.
Step(t) == Bounded(t) /\ Apply(t) /\ backend' = backend

\* fetch(url): the call is in flight until it settles.
Fetch(s, res, period, awaiter) ==
    [s EXCEPT !.net = @ (+) SetToBag({[res |-> res, period |-> period,
                                       awaiter |-> awaiter, mounted |-> ~s.tornDown]}),
              !.sent = @ \cup {[res |-> res, period |-> period]}]

\* setTimeout(load, 60000) stored in retryTimeouts[res]: the handle stored
\* before it, if its timer is still pending, is no longer reachable.
SetRetryTimeout(s, res) ==
    [s EXCEPT !.timers =
        Append([i \in 1..Len(@) |->
                    IF @[i].res = res THEN TimerEntry(res, FALSE) ELSE @[i]],
               TimerEntry(res, TRUE))]

\* clearTimeout(h) / clearInterval(h) of the handle the variable holds
ClearTimer(s, res) ==
    LET keep(e) == ~(e.res = res /\ e.tracked)
    IN  [s EXCEPT !.timers = SelectSeq(@, keep)]

ClearRetryTimeout(s, res) == ClearTimer(s, res)

\* app.js:174-176, up to the await
loadTankProfile(s, awaiter) == Fetch(s, "tankProfile", "-", awaiter)

\* updateTankDisplay that copies the fields of the body into the profile
\* stored before.
updateTankDisplayMerging(s, profile) ==
    [s EXCEPT !.currentProfile =
        [f \in DOMAIN s.currentProfile \cup DOMAIN profile |->
            IF f \in DOMAIN profile THEN profile[f] ELSE s.currentProfile[f]]]

\* app.js:209-235
updateTankDisplay(s, profile) == [s EXCEPT !.currentProfile = profile]

\* loadTankProfile with a catch block that rethrows after the placeholder
\* and the retry timer.
tankProfileSettledRethrowing(s, outcome) ==
    IF outcome \in ServerProfiles
    THEN updateTankDisplay(s, outcome)
    ELSE [SetRetryTimeout(updateTankDisplay(s, PlaceholderProfile), "tankProfile")
            EXCEPT !.thrown = TRUE]

\* app.js:178-203, from the settling of the fetch: the body is shown and
\* stored, or the placeholder record is shown and stored and a retry is set.
tankProfileSettled(s, outcome) ==
    IF outcome \in ServerProfiles
    THEN updateTankDisplay(s, outcome)
    ELSE SetRetryTimeout(updateTankDisplay(s, PlaceholderProfile), "tankProfile")

\* app.js:1517-1523
showLoading(s, show) == [s EXCEPT !.loading = show]

\* loadSensorData without the test of line 241.
loadSensorDataUnguarded(s, awaiter) ==
    Fetch(showLoading([s EXCEPT !.isLoadingSensorData = TRUE], TRUE),
          "sensorData", TIMELINE_CONFIG(s.currentTimeline).period, awaiter)

\* app.js:240-250, up to the await
loadSensorData(s, awaiter) ==
    IF s.isLoadingSensorData
    THEN s
    ELSE Fetch(showLoading([s EXCEPT !.isLoadingSensorData = TRUE], TRUE),
               "sensorData", TIMELINE_CONFIG(s.currentTimeline).period, awaiter)

\* app.js:296-303 and 384-437: the canvases are drawn only where they exist.
updateCharts(s, window) ==
    IF "temperatureChart" \in s.dom THEN [s EXCEPT !.charts = window] ELSE s

\* app.js:442-456
showChartPlaceholders(s) ==
    IF "temperatureChart" \in s.dom THEN [s EXCEPT !.placeholders = TRUE] ELSE s

hideChartPlaceholders(s) ==
    IF "temperatureChart" \in s.dom THEN [s EXCEPT !.placeholders = FALSE] ELSE s

NoAlerts == [kind |-> "initial", window |-> "-", profile |-> "-"]
NoDataAlert == [kind |-> "noData", window |-> "-", profile |-> "-"]

\* app.js:522-657: the list is rewritten from the readings given and the
\* profile stored at that moment; "none" stands for an empty readings array.
updateAlerts(s, window) ==
    IF "alertsList" \notin s.dom THEN s
    ELSE IF window = "none" THEN [s EXCEPT !.alerts = NoDataAlert]
    ELSE [s EXCEPT !.alerts = [kind |-> "derived", window |-> window,
                               profile |-> s.currentProfile]]

\* The settling of a fetch that then serves a timeline change it found
\* waiting: a request made during the fetch is queued instead of dropped.
sensorDataSettledQueued(s, period, outcome) ==
    LET shown ==
            CASE outcome = "data" ->
                    updateAlerts(hideChartPlaceholders(updateCharts(s, period)), period)
              [] outcome = "empty" ->
                    updateAlerts(showChartPlaceholders(s), "none")
              [] OTHER ->
                    SetRetryTimeout(
                        ClearRetryTimeout(updateAlerts(showChartPlaceholders(s), "none"),
                                          "sensorData"),
                        "sensorData")
        done == [showLoading(shown, FALSE) EXCEPT !.isLoadingSensorData = FALSE]
    IN  IF TIMELINE_CONFIG(s.currentTimeline).period # period
        THEN loadSensorData(done, "none")
        ELSE done

\* loadSensorData with a catch block that rethrows (the finally block runs
\* first).
sensorDataSettledRethrowing(s, period, outcome) ==
    LET shown ==
            CASE outcome = "data" ->
                    updateAlerts(hideChartPlaceholders(updateCharts(s, period)), period)
              [] outcome = "empty" ->
                    updateAlerts(showChartPlaceholders(s), "none")
              [] OTHER ->
                    [SetRetryTimeout(
                        ClearRetryTimeout(updateAlerts(showChartPlaceholders(s), "none"),
                                          "sensorData"),
                        "sensorData") EXCEPT !.thrown = TRUE]
    IN  [showLoading(shown, FALSE) EXCEPT !.isLoadingSensorData = FALSE]

\* loadSensorData that returns from the branch of the empty window before
\* the indicator is hidden.
sensorDataSettledLeavingIndicator(s, period, outcome) ==
    LET shown ==
            CASE outcome = "data" ->
                    updateAlerts(hideChartPlaceholders(updateCharts(s, period)), period)
              [] outcome = "empty" ->
                    updateAlerts(showChartPlaceholders(s), "none")
              [] OTHER ->
                    SetRetryTimeout(
                        ClearRetryTimeout(updateAlerts(showChartPlaceholders(s), "none"),
                                          "sensorData"),
                        "sensorData")
    IN  IF outcome = "empty"
        THEN [shown EXCEPT !.isLoadingSensorData = FALSE]
        ELSE [showLoading(shown, FALSE) EXCEPT !.isLoadingSensorData = FALSE]

\* loadSensorData without the finally block after a failure: the flag of
\* line 242 stays set.
sensorDataSettledKeepingGuard(s, period, outcome) ==
    LET shown ==
            CASE outcome = "data" ->
                    updateAlerts(hideChartPlaceholders(updateCharts(s, period)), period)
              [] outcome = "empty" ->
                    updateAlerts(showChartPlaceholders(s), "none")
              [] OTHER ->
                    SetRetryTimeout(
                        ClearRetryTimeout(updateAlerts(showChartPlaceholders(s), "none"),
                                          "sensorData"),
                        "sensorData")
    IN  IF outcome \in {"data", "empty"}
        THEN [showLoading(shown, FALSE) EXCEPT !.isLoadingSensorData = FALSE]
        ELSE shown

\* app.js:252-290, from the settling of the fetch issued for `period`.  The
\* catch block (lines 275-286) ends without a throw.
sensorDataSettled(s, period, outcome) ==
    LET shown ==
            CASE outcome = "data" ->
                    updateAlerts(hideChartPlaceholders(updateCharts(s, period)), period)
              [] outcome = "empty" ->
                    updateAlerts(showChartPlaceholders(s), "none")
              [] OTHER ->
                    SetRetryTimeout(
                        ClearRetryTimeout(updateAlerts(showChartPlaceholders(s), "none"),
                                          "sensorData"),
                        "sensorData")
    IN  [showLoading(shown, FALSE) EXCEPT !.isLoadingSensorData = FALSE]

----------------------------------------------------------------------------
\* Alert derivation (updateAlerts) on the values the service sends.
\*
\* A JSON value: a number, counted in thousandths (24 is 24000, 0.25 is
\* 250), a text, null, or undefined for a field the object does not have.
Undefined == [type |-> "undefined"]
Null == [type |-> "null"]
Text(t) == [type |-> "string", text |-> t]
Num(n) == [type |-> "number", nan |-> FALSE, val |-> n]
NaN == [type |-> "number", nan |-> TRUE, val |-> 0]

\* obj.f
Prop(obj, f) == IF f \in DOMAIN obj THEN obj[f] ELSE Undefined

\* a ?? b
nullish(a, b) == IF a.type \in {"undefined", "null"} THEN b ELSE a

\* if (v)
truthy(v) ==
    CASE v.type = "number" -> ~v.nan /\ v.val # 0
      [] v.type = "string" -> v.text # ""
      [] v.type \in {"array", "object"} -> TRUE
      [] OTHER -> FALSE

\* app.js:545-548 and 602: parseFloat of a number is the number; of
\* undefined, null and a text without digits ("N/A") it is NaN.
parseNumber(v) == IF v.type = "number" THEN v ELSE NaN

\* app.js:39-44, in thousandths
ALERT_THRESHOLDS ==
    [temperature |-> [min |-> 24000, max |-> 30000],
     ph |-> [min |-> 6500, max |-> 8000],
     ammonia |-> [max |-> 250],
     waterLevel |-> [percentageOfTarget |-> 800]]

\* app.js:190-199: the record shown and stored when the profile fetch fails
PlaceholderRecord ==
    [volume |-> Text("N/A"), appropriate_water_level |-> Text("N/A")]

\* app.js:368: readings.sort by timestamp, ascending; the sort is stable.
RECURSIVE insertReading(_, _)
insertReading(sorted, r) ==
    IF sorted = <<>> THEN <<r>>
    ELSE IF sorted[Len(sorted)].timestamp <= r.timestamp THEN Append(sorted, r)
    ELSE Append(insertReading(SubSeq(sorted, 1, Len(sorted) - 1), r), sorted[Len(sorted)])

RECURSIVE sortReadings(_)
sortReadings(readings) ==
    IF readings = <<>> THEN <<>>
    ELSE insertReading(sortReadings(SubSeq(readings, 1, Len(readings) - 1)),
                       readings[Len(readings)])

\* A reduce that keeps its first element.
reduceFirst(recent, rest) == recent

\* app.js:541-543: readings.reduce keeps the reading met so far unless the
\* next one has a greater timestamp.
RECURSIVE reduceLatest(_, _)
reduceLatest(recent, rest) ==
    IF rest = <<>> THEN recent
    ELSE reduceLatest(IF Head(rest).timestamp > recent.timestamp THEN Head(rest) ELSE recent,
                      Tail(rest))

\* An alert record: `value` is the number its text shows and `bound` the
\* limit it shows (toFixed, the unit and the suggestion are not represented).
Alert(level, title, value, bound) ==
    [level |-> level, title |-> title, value |-> value, bound |-> bound]

\* A temperature check that also flags the lower limit itself.
temperatureCheckInclusive(temp) ==
    IF temp.nan THEN <<>>
    ELSE IF temp.val <= ALERT_THRESHOLDS.temperature.min
    THEN <<Alert("danger", "Low Temperature", temp.val, ALERT_THRESHOLDS.temperature.min)>>
    ELSE IF temp.val > ALERT_THRESHOLDS.temperature.max
    THEN <<Alert("danger", "High Temperature", temp.val, ALERT_THRESHOLDS.temperature.max)>>
    ELSE <<>>

\* app.js:550-566
temperatureCheck(temp) ==
    IF temp.nan THEN <<>>
    ELSE IF temp.val < ALERT_THRESHOLDS.temperature.min
    THEN <<Alert("danger", "Low Temperature", temp.val, ALERT_THRESHOLDS.temperature.min)>>
    ELSE IF temp.val > ALERT_THRESHOLDS.temperature.max
    THEN <<Alert("danger", "High Temperature", temp.val, ALERT_THRESHOLDS.temperature.max)>>
    ELSE <<>>

\* app.js:568-585
phCheck(ph) ==
    IF ph.nan THEN <<>>
    ELSE IF ph.val < ALERT_THRESHOLDS.ph.min
    THEN <<Alert("caution", "Low pH", ph.val, ALERT_THRESHOLDS.ph.min)>>
    ELSE IF ph.val > ALERT_THRESHOLDS.ph.max
    THEN <<Alert("caution", "High pH", ph.val, ALERT_THRESHOLDS.ph.max)>>
    ELSE <<>>

\* app.js:587-597
ammoniaCheck(ammonia) ==
    IF ~ammonia.nan /\ ammonia.val > ALERT_THRESHOLDS.ammonia.max
    THEN <<Alert("danger", "High Ammonia Detected", ammonia.val, ALERT_THRESHOLDS.ammonia.max)>>
    ELSE <<>>

\* A water-level check that always reads the level as a percentage.
waterLevelCheckPercentOnly(waterLevel, appropriateLevel) ==
    IF ~waterLevel.nan /\ truthy(appropriateLevel)
        /\ waterLevel.val >= 0 /\ waterLevel.val <= 100000 /\ waterLevel.val < 80000
    THEN <<Alert("caution", "Low Water Level", waterLevel.val, 80000)>>
    ELSE <<>>

\* app.js:599-627.  With x, a in thousandths, x <= a * 1.5 is
\* 1000 x <= 1500 a, and x < a * 0.8 is 1000 x < 800 a.
waterLevelCheck(waterLevel, appropriateLevel) ==
    IF ~waterLevel.nan /\ truthy(appropriateLevel)
    THEN LET appropriateLevelNum == parseNumber(appropriateLevel)
             pct == ALERT_THRESHOLDS.waterLevel.percentageOfTarget
         IN  IF ~appropriateLevelNum.nan /\ appropriateLevelNum.val >= 50000
                    /\ 1000 * waterLevel.val <= 1500 * appropriateLevelNum.val
             THEN IF 1000 * waterLevel.val < pct * appropriateLevelNum.val
                  THEN <<Alert("caution", "Low Water Level", waterLevel.val,
                               (pct * appropriateLevelNum.val) \div 1000)>>
                  ELSE <<>>
             ELSE IF waterLevel.val >= 0 /\ waterLevel.val <= 100000
                        /\ waterLevel.val < 80000
             THEN <<Alert("caution", "Low Water Level", waterLevel.val, 80000)>>
             ELSE <<>>
    ELSE <<>>

\* app.js:527-528: window.currentProfile || {}, and the level it gives
appropriateLevelOf(profileValue) ==
    LET profile == IF "type" \in DOMAIN profileValue THEN <<>> ELSE profileValue
    IN  nullish(Prop(profile, "appropriate_water_level"),
                Prop(profile, "target_water_level"))

\* app.js:540-627: the `alerts` array built from a non-empty readings array
alertsArray(readings, profileValue) ==
    LET latest == reduceLatest(Head(readings), Tail(readings))
    IN  temperatureCheck(parseNumber(latest.temperature))
            \o phCheck(parseNumber(latest.ph))
            \o ammoniaCheck(parseNumber(latest.ammonia))
            \o waterLevelCheck(parseNumber(latest.water_level),
                               appropriateLevelOf(profileValue))

InfoRecord == [level |-> "info", title |-> "No data available to check alerts"]
SuccessRecord == [level |-> "success", title |-> "All parameters within safe ranges"]

\* What #alertsList holds after innerHTML is assigned: a record per element
Rendered(list) == [kind |-> "rendered", list |-> list]

\* A rendering without the "all safe" record.
renderAlertsBare(alertsArr) == alertsArr

\* app.js:629-654
renderAlerts(alertsArr) == IF alertsArr = <<>> THEN <<SuccessRecord>> ELSE alertsArr

\* updateAlerts without the test for an empty readings array.
updateAlertsListNoEmptyTest(s, readings) ==
    IF "alertsList" \notin s.dom THEN s
    ELSE [s EXCEPT !.alerts = Rendered(renderAlerts(<<>>))]

\* updateAlerts appending to what the list holds.
updateAlertsListAppending(s, readings) ==
    LET old == IF s.alerts.kind = "rendered" THEN s.alerts.list ELSE <<>>
    IN  IF "alertsList" \notin s.dom THEN s
        ELSE IF Len(readings) = 0 THEN [s EXCEPT !.alerts = Rendered(old \o <<InfoRecord>>)]
        ELSE [s EXCEPT !.alerts =
                Rendered(old \o renderAlerts(alertsArray(readings, s.currentProfile)))]

\* app.js:522-657: updateAlerts(readings) with the content it writes
updateAlertsList(s, readings) ==
    IF "alertsList" \notin s.dom THEN s
    ELSE IF Len(readings) = 0 THEN [s EXCEPT !.alerts = Rendered(<<InfoRecord>>)]
    ELSE [s EXCEPT !.alerts = Rendered(renderAlerts(alertsArray(readings, s.currentProfile)))]

\* loadSensorData that throws on an empty items array as it does on a body
\* without one.
sensorItemsSettledEmptyThrows(s, r) ==
    LET outcome == IF r.reply.status # "ok" \/ Len(r.reply.items) = 0 THEN "invalid"
                   ELSE "data"
        readings == IF outcome = "data" THEN sortReadings(r.reply.items) ELSE <<>>
    IN  [sensorDataSettled(s, r.period, outcome)
            EXCEPT !.alerts = updateAlertsList(s, readings).alerts]

\* app.js:252-290, from the settling of the fetch, with the body of the
\* answer: updateCharts sorts the readings in place (line 368) before
\* updateAlerts receives them.
sensorItemsSettled(s, r) ==
    LET outcome == IF r.reply.status = "malformed" THEN "invalid"
                   ELSE IF r.reply.status # "ok" THEN "error"
                   ELSE IF Len(r.reply.items) = 0 THEN "empty"
                   ELSE "data"
        readings == IF outcome = "data" THEN sortReadings(r.reply.items) ELSE <<>>
    IN  [sensorDataSettled(s, r.period, outcome)
            EXCEPT !.alerts = updateAlertsList(s, readings).alerts]

\* app.js:178-203, from the settling of the fetch, with the body of the answer
tankProfileBodySettled(s, r) ==
    IF r.reply.status = "ok"
    THEN updateTankDisplay(s, r.reply.body)
    ELSE SetRetryTimeout(updateTankDisplay(s, PlaceholderRecord), "tankProfile")

----------------------------------------------------------------------------
\* The feeding page.

\* Values of a datetime-local input ("YYYY-MM-DDTHH:mm") the operator
\* schedules feedings for.
Times == {"T1"}

\* A timestamp string, as its first 16 characters and what follows them.
Stamp(dt, sec) == [dt |-> dt, sec |-> sec]
NoTime == Stamp("", "")
DatetimeValues == {Stamp(dt, "") : dt \in Times}

\* app.js:730 and 1316: value + ":00"
addSeconds(v) == Stamp(v.dt, v.sec \o ":00")

\* A slice that returns the whole string.
sliceAll(ts) == ts

\* app.js:1256: timestamp.slice(0, 16)
slice16(ts) == Stamp(ts.dt, "")

\* What the quantity field can hold when a form is submitted: the feeder
\* form, and the form of the edit modal.
QtyTexts == {"abc", "-1", "0", "5", "11"}
EditQtyTexts == QtyTexts \cup {"7"}

\* app.js:712 and 1299: parseFloat of the field's text
parseFloat(text) ==
    CASE text = "-1" -> [nan |-> FALSE, val |-> -1]
      [] text = "0"  -> [nan |-> FALSE, val |-> 0]
      [] text = "5"  -> [nan |-> FALSE, val |-> 5]
      [] text = "7"  -> [nan |-> FALSE, val |-> 7]
      [] text = "11" -> [nan |-> FALSE, val |-> 11]
      [] OTHER       -> [nan |-> TRUE, val |-> 0]

\* app.js:742: localStorage.setItem stores the number as its decimal text
NumberText(n) ==
    CASE n = 0  -> "0"
      [] n = 5  -> "5"
      [] n = 7  -> "7"
      [] OTHER  -> "?"

\* app.js:716 and 1304: the test that rejects the input
invalidInput(datetimeValue, qty) ==
    datetimeValue = NoTime \/ qty.nan \/ qty.val < 0 \/ qty.val > 10

\* textContent and className of a message element are set: #feederMessage
\* (app.js:767-780; the 3-second timer that hides a success message is not
\* represented), #editPendingMessage, #deletePendingMessage.
Show(s, el, type, text) == [s EXCEPT !.message = [el |-> el, type |-> type, text |-> text]]
NoneShown == [el |-> "", type |-> "", text |-> ""]
ValidationText == "Please enter valid date/time and quantity (0-10g)"
SuccessText == "success"

\* Bodies of a non-2xx answer of the service: a text, or nothing.
ErrorBodies == {"feed rejected", ""}

\* app.js:672-682, 1335-1345, 1441-1451: the body's text if there is one,
\* else the status line (`HTTP ${response.status}`)
errorMessage(reply) == IF reply.text # "" THEN reply.text ELSE "HTTP 500"

NoReply == [status |-> "none", items |-> {}, text |-> ""]
NoLocals == [datetimeValue |-> NoTime, qty |-> 0]
NoPayload == [timestamp |-> NoTime]

\* fetch() of the feeding-events endpoint: the call is in flight until it
\* settles; `locals` are the variables of the suspended function that its
\* continuation reads, `reply` is the answer once the service has given it.
FeedFetch(s, res, payload, awaiter, locals) ==
    [s EXCEPT !.net = @ (+) SetToBag({[res |-> res, payload |-> payload,
                                       awaiter |-> awaiter, locals |-> locals,
                                       reply |-> NoReply]}),
              !.sent = @ \cup {[res |-> res, payload |-> payload]}]

\* app.js:1155-1157, up to the await
loadPendingFeedings(s, awaiter) ==
    FeedFetch(s, "pendingFeedings", NoPayload, awaiter, NoLocals)

\* app.js:1181-1238: a row per event, with its edit and delete buttons
renderPendingFeedings(s, events) == [s EXCEPT !.pendingView = events]

\* app.js:1159-1175, from the settling of the fetch
pendingFeedingsSettled(s, reply) ==
    IF reply.status = "ok"
    THEN renderPendingFeedings(s, {e \in reply.items : e.status = "pending"})
    ELSE renderPendingFeedings(s, {})

\* app.js:1042-1044, up to the await
loadFeedingEvents(s, awaiter) ==
    FeedFetch(s, "feedingEvents", NoPayload, awaiter, NoLocals)

\* app.js:1083-1128
renderFeedingHistory(s, events) == [s EXCEPT !.historyView = events]

\* app.js:1046-1077, from the settling of the fetch.  The service holds at
\* most one event per timestamp of Times, so the cut at 20 rows (line 1071)
\* keeps them all; the order of the rows is not represented.
feedingEventsSettled(s, reply) ==
    IF reply.status = "ok"
    THEN renderFeedingHistory(s, {e \in reply.items : e.status # "pending"})
    ELSE renderFeedingHistory(s, {})

\* app.js:767-780
showFeederMessage(s, text, type) == Show(s, "feeder", type, text)

\* app.js:662-668: the POST, awaited by the submit handler
createFeedingEvent(s, payload, locals) ==
    FeedFetch(s, "createFeeding", payload, "create", locals)

\* app.js:708-739: the submit handler of #feederForm up to its await
submitFeederForm(s, datetimeValue, qtyText) ==
    LET qty == parseFloat(qtyText)
    IN  IF invalidInput(datetimeValue, qty)
        THEN showFeederMessage(s, ValidationText, "error")
        ELSE createFeedingEvent([s EXCEPT !.disabled.create = TRUE],
                                [feedtime |-> addSeconds(datetimeValue),
                                 qty |-> qty.val, status |-> "pending"],
                                [datetimeValue |-> datetimeValue, qty |-> qty.val])

\* app.js:758-762
submitFinally(s) == [s EXCEPT !.disabled.create = FALSE]

\* A submit handler that stores the last-used values before it looks at the
\* answer.
createSettledSavingFirst(s, r) ==
    LET saved == [s EXCEPT !.localStorage =
                        [feederTime |-> r.locals.datetimeValue,
                         feederQty |-> NumberText(r.locals.qty)]]
    IN  IF r.reply.status = "ok"
        THEN LET s1 == showFeederMessage(saved, SuccessText, "success")
             IN  IF s.currentPage = "feeding"
                 THEN loadPendingFeedings(s1, "create")
                 ELSE submitFinally(s1)
        ELSE submitFinally(showFeederMessage(saved, errorMessage(r.reply), "error"))

\* app.js:670-691 and 739-762, from the settling of the POST
createSettled(s, r) ==
    IF r.reply.status = "ok"
    THEN LET s1 == showFeederMessage(
                       [s EXCEPT !.localStorage =
                            [feederTime |-> r.locals.datetimeValue,
                             feederQty |-> NumberText(r.locals.qty)]],
                       SuccessText, "success")
         IN  IF s.currentPage = "feeding"
             THEN loadPendingFeedings(s1, "create")
             ELSE submitFinally(s1)
    ELSE submitFinally(showFeederMessage(s, errorMessage(r.reply), "error"))

\* app.js:1243-1268: the modal is filled from the row and shown
editPendingFeeding(s, timestamp) ==
    Show([s EXCEPT !.editModal = [shown |-> TRUE, original |-> timestamp]],
         "edit", "", "")

\* app.js:1256: the text editPendingFeeding puts in the time field
editFeedingTime(timestamp) == slice16(timestamp)

\* app.js:1273-1278
closeEditPendingModal(s) == [s EXCEPT !.editModal.shown = FALSE]

\* app.js:1283-1332: the submit handler of #editPendingForm up to its await
handleEditPendingSubmit(s, newDatetime, qtyText) ==
    LET qty == parseFloat(qtyText)
    IN  IF invalidInput(newDatetime, qty)
        THEN Show(s, "edit", "error", ValidationText)
        ELSE FeedFetch([s EXCEPT !.disabled.edit = TRUE], "updateFeeding",
                       [timestamp |-> s.editModal.original,
                        new_timestamp |-> addSeconds(newDatetime),
                        qty |-> qty.val],
                       "edit", NoLocals)

\* A submit handler whose button is enabled again on success only.
updateSettledKeepingDisabled(s, r) ==
    IF r.reply.status = "ok"
    THEN loadPendingFeedings(Show(s, "edit", "success", SuccessText), "edit")
    ELSE Show(s, "edit", "error", errorMessage(r.reply))

\* app.js:1334-1371, from the settling of the PUT
updateSettled(s, r) ==
    IF r.reply.status = "ok"
    THEN loadPendingFeedings(Show(s, "edit", "success", SuccessText), "edit")
    ELSE [Show(s, "edit", "error", errorMessage(r.reply)) EXCEPT !.disabled.edit = FALSE]

\* app.js:1377-1403
deletePendingFeeding(s, timestamp) ==
    Show([s EXCEPT !.deleteModal = [shown |-> TRUE, timestamp |-> timestamp]],
         "delete", "", "")

\* app.js:1408-1413
closeDeletePendingModal(s) == [s EXCEPT !.deleteModal.shown = FALSE]

\* confirmDeletePending without the test of line 1427.
confirmDeletePendingUnchecked(s) ==
    FeedFetch([s EXCEPT !.disabled.delete = TRUE], "deleteFeeding",
              [timestamp |-> s.deleteModal.timestamp], "delete", NoLocals)

\* app.js:1418-1438, up to the await
confirmDeletePending(s) ==
    IF s.deleteModal.timestamp = NoTime
    THEN s
    ELSE FeedFetch([s EXCEPT !.disabled.delete = TRUE], "deleteFeeding",
                   [timestamp |-> s.deleteModal.timestamp], "delete", NoLocals)

\* A delete handler that sends the DELETE again when it has failed.
deleteSettledRetrying(s, r) ==
    IF r.reply.status = "ok"
    THEN loadPendingFeedings(Show(s, "delete", "success", SuccessText), "delete")
    ELSE FeedFetch(Show(s, "delete", "error", errorMessage(r.reply)),
                   "deleteFeeding", r.payload, "delete", NoLocals)

\* app.js:1440-1483, from the settling of the DELETE
deleteSettled(s, r) ==
    IF r.reply.status = "ok"
    THEN loadPendingFeedings(Show(s, "delete", "success", SuccessText), "delete")
    ELSE [Show(s, "delete", "error", errorMessage(r.reply)) EXCEPT !.disabled.delete = FALSE]

\* app.js:1133-1138, up to the await
refreshFeedingHistory(s) ==
    loadFeedingEvents([s EXCEPT !.disabled.refresh = TRUE], "refresh")

\* app.js:1489-1512
startAutoRefresh(s) ==
    [ClearTimer(s, "refresh") EXCEPT !.timers = Append(@, TimerEntry("refresh", TRUE))]

AwaitedByInit(n) == \E r \in BagToSet(n) : r.awaiter = "init"

\* app.js:153-163: what initializeApplication does after the sensor data or
\* the feeding tables.  The prediction panel shows a constant and is not
\* part of the state.
initAfterSensorData(s) ==
    [(IF s.currentPage = "monitoring" THEN startAutoRefresh(s) ELSE s)
        EXCEPT !.initPc = "done"]

\* app.js:142-151: loadSensorData() returns at once when a fetch is in
\* flight; the feeding page loads its two tables instead of the readings.
initAfterTankProfile(s) ==
    IF s.currentPage \in {"overview", "monitoring"}
    THEN LET s1 == loadSensorData(s, "init")
         IN  IF AwaitedByInit(s1.net)
             THEN [s1 EXCEPT !.initPc = "sensorData"]
             ELSE initAfterSensorData(s1)
    ELSE IF s.currentPage = "feeding"
    THEN [loadPendingFeedings(s, "init") EXCEPT !.initPc = "pendingFeedings"]
    ELSE initAfterSensorData(s)

\* app.js:164-168: the catch block of initializeApplication sets the
\* 5-second timer that runs initializeApplication again; initPc = "retry"
\* stands for that timer pending.
initCatch(s) == [s EXCEPT !.initPc = "retry", !.thrown = FALSE]

\* The function awaiting the settled call goes on in the same run: a
\* rejection takes initializeApplication to its catch block, and is logged
\* by the interval callback (app.js:1505-1507).
Resume(s, r) ==
    IF r.awaiter # "init" THEN [s EXCEPT !.thrown = FALSE]
    ELSE IF s.thrown THEN initCatch(s)
    ELSE IF r.res = "tankProfile" THEN initAfterTankProfile(s)
    ELSE initAfterSensorData(s)

\* What follows `await loadPendingFeedings()` in the function that awaits it
\* (app.js:150, 749, 1356, 1461): loadFeedingEvents() up to its await.
afterPendingFeedings(s, awaiter) ==
    IF awaiter = "init"
    THEN [loadFeedingEvents(s, "init") EXCEPT !.initPc = "feedingEvents"]
    ELSE loadFeedingEvents(s, awaiter)

\* What follows `await loadFeedingEvents()`: the rest of initialization
\* (app.js:153-163), the finally block of the submit handlers (758-762,
\* 1366-1371, 1478-1483), or the finally block of refreshFeedingHistory
\* (1144-1149).  The 1.5-second timers that close the modals (1360, 1465)
\* are part of CloseEditPendingModal and CloseDeletePendingModal.
afterFeedingEvents(s, awaiter) ==
    CASE awaiter = "init"    -> initAfterSensorData(s)
      [] awaiter = "create"  -> submitFinally(s)
      [] awaiter = "edit"    -> [s EXCEPT !.disabled.edit = FALSE]
      [] awaiter = "delete"  -> [s EXCEPT !.disabled.delete = FALSE]
      [] awaiter = "refresh" -> [s EXCEPT !.disabled.refresh = FALSE]
      [] OTHER               -> s

Settle(s, r) == [s EXCEPT !.net = @ (-) SetToBag({r})]

\* app.js:461-473
selectTimeline(s, period) ==
    loadSensorData([s EXCEPT !.currentTimeline = period], "none")

\* An interval callback that leaves the readings alone while the profile on
\* display is the placeholder of a failed fetch.
autoRefreshAfterFailure(s) ==
    IF s.currentPage = "monitoring" /\ s.currentProfile # PlaceholderProfile
    THEN loadSensorData(loadTankProfile(s, "none"), "none")
    ELSE IF s.currentPage = "feeding"
    THEN loadFeedingEvents(s, "none")
    ELSE loadTankProfile(s, "none")

\* app.js:1494-1509, the interval callback up to its await
autoRefresh(s) ==
    IF s.currentPage = "monitoring"
    THEN loadSensorData(loadTankProfile(s, "none"), "none")
    ELSE IF s.currentPage = "feeding"
    THEN loadFeedingEvents(s, "none")
    ELSE loadTankProfile(s, "none")

\* The first pending timer fires: a timeout is spent, the interval is due
\* again after every timer pending now.
TimerFired(s) ==
    IF Head(s.timers).res = "refresh"
    THEN [s EXCEPT !.timers = Append(Tail(@), Head(@))]
    ELSE [s EXCEPT !.timers = Tail(@)]

NextTimer(res) == timers # <<>> /\ Head(timers).res = res

\* app.js:1535-1546
beforeUnload(s) ==
    [ClearRetryTimeout(ClearRetryTimeout(ClearTimer(s, "refresh"), "tankProfile"),
                       "sensorData")
        EXCEPT !.charts = "none", !.tornDown = TRUE]

----------------------------------------------------------------------------
\* The feeding-events service, from its HTTP contract: an event is kept
\* under its scheduled time; POST stores an event, PUT rewrites the pending
\* event stored under `timestamp` as the one under `new_timestamp`, DELETE
\* removes the pending event stored under `timestamp`, GET lists the events.
\* A quantity is more than 0 and at most 10 grams.
backendAccepts(b, r) ==
    /\ r.res \in {"updateFeeding", "deleteFeeding"}
        => \E e \in b : e.feedtime = r.payload.timestamp /\ e.status = "pending"
    /\ r.res \in {"createFeeding", "updateFeeding"}
        => (r.payload.qty > 0 /\ r.payload.qty <= 10)

backendApply(b, r) ==
    CASE r.res = "createFeeding" ->
            {e \in b : e.feedtime # r.payload.feedtime} \cup {r.payload}
      [] r.res = "updateFeeding" ->
            {e \in b : e.feedtime \notin {r.payload.timestamp, r.payload.new_timestamp}}
                \cup {[feedtime |-> r.payload.new_timestamp, qty |-> r.payload.qty,
                       status |-> "pending"]}
      [] r.res = "deleteFeeding" ->
            {e \in b : e.feedtime # r.payload.timestamp}
      [] OTHER -> b

\* The answer to a call the service accepts
backendReply(b, r) ==
    [status |-> "ok", items |-> IF r.res \in {"pendingFeedings", "feedingEvents"}
                                THEN b ELSE {}, text |-> ""]

Replied(n, r, reply) == (n (-) SetToBag({r})) (+) SetToBag({[r EXCEPT !.reply = reply]})

\* The state of the feeding page before any of its handlers has run.
FeedingPageInit ==
    /\ pendingView = {}
    /\ historyView = {}
    /\ message = NoneShown
    /\ disabled = [create |-> FALSE, edit |-> FALSE, delete |-> FALSE, refresh |-> FALSE]
    /\ localStorage = [feederTime |-> NoTime, feederQty |-> ""]
    /\ editModal = [shown |-> FALSE, original |-> NoTime]
    /\ deleteModal = [shown |-> FALSE, timestamp |-> NoTime]
    /\ backend = {}

Init ==
    /\ FeedingPageInit
    /\ dom \in DomChoices
    /\ currentPage = "overview"
    /\ currentTimeline = "day"
    /\ charts = "none"
    /\ timers = <<>>
    /\ isLoadingSensorData = FALSE
    /\ currentProfile = "undefined"
    /\ placeholders = FALSE
    /\ alerts = NoAlerts
    /\ loading = FALSE
    /\ net = EmptyBag
    /\ initPc = "start"
    /\ tornDown = FALSE
    /\ sent = {}

\* app.js:72-87 and 135-139: the page is detected and initializeApplication
\* runs up to its first await.
DOMContentLoaded ==
    /\ initPc = "start"
    /\ ~tornDown
    /\ Step(loadTankProfile([S EXCEPT !.currentPage = detectCurrentPage(dom),
                                      !.initPc = "tankProfile"], "init"))

\* GET /tank-profile settles.
TankProfileResponse(r, outcome) ==
    /\ r \in InFlight(net, "tankProfile")
    /\ Step(Resume(tankProfileSettled(Settle(S, r), outcome), r))

\* GET /readings settles.
SensorDataResponse(r, outcome) ==
    /\ r \in InFlight(net, "sensorData")
    /\ Step(Resume(sensorDataSettled(Settle(S, r), r.period, outcome), r))

\* The operator picks a timeline on the loaded page.
SelectTimeline(period) ==
    /\ initPc # "start"
    /\ ~tornDown
    /\ Step(selectTimeline(S, period))

\* The 60-second interval fires.
AutoRefreshTick ==
    /\ NextTimer("refresh")
    /\ Step(autoRefresh(TimerFired(S)))

\* A 60-second retry timer fires.
TankProfileRetry ==
    /\ NextTimer("tankProfile")
    /\ Step(loadTankProfile(TimerFired(S), "none"))

SensorDataRetry ==
    /\ NextTimer("sensorData")
    /\ Step(loadSensorData(TimerFired(S), "none"))

\* The page is left.
BeforeUnload ==
    /\ initPc # "start"
    /\ ~tornDown
    /\ Step(beforeUnload(S))

Next ==
    \/ DOMContentLoaded
    \/ \E r \in BagToSet(net), o \in TankOutcomes : TankProfileResponse(r, o)
    \/ \E r \in BagToSet(net), o \in SensorOutcomes : SensorDataResponse(r, o)
    \/ \E p \in Timelines : SelectTimeline(p)
    \/ AutoRefreshTick
    \/ TankProfileRetry
    \/ SensorDataRetry
    \/ BeforeUnload

Spec == Init /\ [][Next]_vars

\* The monitoring page while it stays open: the browser fires every
\* pending timer when it is due and every fetch() settles.
InitRetry == Init /\ dom = {"temperatureChart", "alertsList"}

NextRetry ==
    \/ DOMContentLoaded
    \/ \E r \in BagToSet(net), o \in TankOutcomes : TankProfileResponse(r, o)
    \/ \E r \in BagToSet(net), o \in SensorOutcomes : SensorDataResponse(r, o)
    \/ SelectTimeline("day")
    \/ AutoRefreshTick
    \/ TankProfileRetry
    \/ SensorDataRetry

TimersFire ==
    /\ WF_vars(AutoRefreshTick)
    /\ WF_vars(TankProfileRetry)
    /\ WF_vars(SensorDataRetry)
FetchesSettle ==
    /\ WF_vars(\E r \in BagToSet(net), o \in TankOutcomes : TankProfileResponse(r, o))
    /\ WF_vars(\E r \in BagToSet(net), o \in SensorOutcomes : SensorDataResponse(r, o))

SpecRetry == InitRetry /\ [][NextRetry]_vars /\ TimersFire /\ FetchesSettle

----------------------------------------------------------------------------
\* The feeding page: its document holds the history section that
\* detectCurrentPage looks for, the feeder form, the two tables and the two
\* modals.
FeedingDom == {"feedingHistorySection", "feederForm", "pendingFeedingsTableBody",
               "feedingTableBody", "editPendingModal", "deletePendingModal"}

\* A feeding the feeder carried out before the page was opened.
PastFeeding == [feedtime |-> Stamp("T0", ":00"), qty |-> 5, status |-> "success"]

InitFeeding ==
    /\ pendingView = {}
    /\ historyView = {}
    /\ message = NoneShown
    /\ disabled = [create |-> FALSE, edit |-> FALSE, delete |-> FALSE, refresh |-> FALSE]
    /\ localStorage = [feederTime |-> NoTime, feederQty |-> ""]
    /\ editModal = [shown |-> FALSE, original |-> NoTime]
    /\ deleteModal = [shown |-> FALSE, timestamp |-> NoTime]
    /\ backend = {PastFeeding}
    /\ dom = FeedingDom
    /\ currentPage = "overview"
    /\ currentTimeline = "day"
    /\ charts = "none"
    /\ timers = <<>>
    /\ isLoadingSensorData = FALSE
    /\ currentProfile = "undefined"
    /\ placeholders = FALSE
    /\ alerts = NoAlerts
    /\ loading = FALSE
    /\ net = EmptyBag
    /\ initPc = "start"
    /\ tornDown = FALSE
    /\ sent = {}

pageVars == <<dom, currentPage, currentTimeline, charts, timers, isLoadingSensorData,
              currentProfile, placeholders, alerts, loading, initPc, tornDown,
              pendingView, historyView, disabled, localStorage, editModal,
              deleteModal>>

\* The service answers a call in flight: it carries the call out, or
\* refuses it with a non-2xx status.
BackendHandles(r, accept, text) ==
    /\ r \in FeedingCalls(net)
    /\ r.reply = NoReply
    /\ r.res \in {"pendingFeedings", "feedingEvents"} => text = ""
    /\ IF accept
       THEN /\ backendAccepts(backend, r)
            /\ text = ""
            /\ backend' = backendApply(backend, r)
            /\ net' = Replied(net, r, backendReply(backend, r))
       ELSE /\ backend' = backend
            /\ net' = Replied(net, r, [status |-> "error", items |-> {}, text |-> text])
    /\ sent' = {}
    /\ message' = NoneShown
    /\ UNCHANGED pageVars

Answered(r, res) == r \in InFlight(net, res) /\ r.reply # NoReply

\* GET /feeding-events of loadPendingFeedings settles.
PendingFeedingsResponse(r) ==
    /\ Answered(r, "pendingFeedings")
    /\ Step(afterPendingFeedings(pendingFeedingsSettled(Settle(S, r), r.reply), r.awaiter))

\* GET /feeding-events of loadFeedingEvents settles.
FeedingEventsResponse(r) ==
    /\ Answered(r, "feedingEvents")
    /\ Step(afterFeedingEvents(feedingEventsSettled(Settle(S, r), r.reply), r.awaiter))

\* The operator submits the feeder form; a form whose submit button is
\* disabled is not submitted.
SubmitFeederForm(datetimeValue, qtyText) ==
    /\ initPc # "start"
    /\ "feederForm" \in dom
    /\ ~disabled.create
    /\ Step(submitFeederForm(S, datetimeValue, qtyText))

\* POST /feeding-events settles.
CreateResponse(r) ==
    /\ Answered(r, "createFeeding")
    /\ Step(createSettled(Settle(S, r), r))

NoModalShown == ~editModal.shown /\ ~deleteModal.shown

\* The operator clicks the edit button of a row of the pending table.
EditPendingFeeding(row) ==
    /\ row \in pendingView
    /\ NoModalShown
    /\ Step(editPendingFeeding(S, row.feedtime))

\* Escape, a click outside the modal, or the timer that closes the modal
\* 1.5 seconds after a successful update (app.js:1360).
CloseEditPendingModal ==
    /\ editModal.shown
    /\ Step(closeEditPendingModal(S))

\* The operator submits the form of the edit modal.
EditPendingSubmit(newDatetime, qtyText) ==
    /\ editModal.shown
    /\ ~disabled.edit
    /\ Step(handleEditPendingSubmit(S, newDatetime, qtyText))

\* PUT /feeding-events settles.
UpdateResponse(r) ==
    /\ Answered(r, "updateFeeding")
    /\ Step(updateSettled(Settle(S, r), r))

\* The operator clicks the delete button of a row of the pending table.
DeletePendingFeeding(row) ==
    /\ row \in pendingView
    /\ NoModalShown
    /\ Step(deletePendingFeeding(S, row.feedtime))

\* Escape, a click outside the modal, its cancel button, or the timer that
\* closes it 1.5 seconds after a successful delete (app.js:1465).
CloseDeletePendingModal ==
    /\ deleteModal.shown
    /\ Step(closeDeletePendingModal(S))

\* confirmDeletePending() is called: by the confirm button of the modal, or
\* as the global function it is, whether the modal was opened or not.
ConfirmDeletePending ==
    /\ initPc # "start"
    /\ ~disabled.delete
    /\ Step(confirmDeletePending(S))

\* DELETE /feeding-events settles.
DeleteResponse(r) ==
    /\ Answered(r, "deleteFeeding")
    /\ Step(deleteSettled(Settle(S, r), r))

\* The operator clicks the refresh button of the history table.
RefreshFeedingHistory ==
    /\ initPc # "start"
    /\ ~disabled.refresh
    /\ Step(refreshFeedingHistory(S))

\* The answer to the tank-profile fetch of the feeding page's
\* initialization: the feeding handlers read nothing of it, and its failure
\* is followed in Spec.
FeedingTankOutcomes == {"profileA"}

\* What the page and the service do on their own.
FeedingPageRuns ==
    \/ DOMContentLoaded
    \/ \E r \in BagToSet(net), o \in FeedingTankOutcomes : TankProfileResponse(r, o)
    \/ \E r \in BagToSet(net) : BackendHandles(r, TRUE, "")
    \/ \E r \in BagToSet(net), text \in ErrorBodies : BackendHandles(r, FALSE, text)
    \/ \E r \in BagToSet(net) : PendingFeedingsResponse(r)
    \/ \E r \in BagToSet(net) : FeedingEventsResponse(r)
    \/ \E r \in BagToSet(net) : CreateResponse(r)
    \/ \E r \in BagToSet(net) : UpdateResponse(r)
    \/ \E r \in BagToSet(net) : DeleteResponse(r)

\* What the time field of the edit modal can hold when its form is
\* submitted: the text editPendingFeeding put there, or what was typed.
EditTimeValues == DatetimeValues \cup {NoTime, editFeedingTime(editModal.original)}

\* What the operator does.
OperatorActs ==
    \/ \E d \in DatetimeValues \cup {NoTime}, q \in QtyTexts : SubmitFeederForm(d, q)
    \/ \E row \in pendingView : EditPendingFeeding(row)
    \/ CloseEditPendingModal
    \/ \E d \in EditTimeValues, q \in EditQtyTexts : EditPendingSubmit(d, q)
    \/ \E row \in pendingView : DeletePendingFeeding(row)
    \/ CloseDeletePendingModal
    \/ ConfirmDeletePending
    \/ RefreshFeedingHistory

NextFeeding == FeedingPageRuns \/ OperatorActs

SpecFeeding == InitFeeding /\ [][NextFeeding]_vars

\* The operator waits for the page to be loaded and for every call of the
\* operation before to have settled.
Quiet == initPc = "done" /\ CountFeedingCalls(net) = 0

NextFeedingSerial == FeedingPageRuns \/ (Quiet /\ OperatorActs)

SpecFeedingSerial == InitFeeding /\ [][NextFeedingSerial]_vars

----------------------------------------------------------------------------
\* The two tables of the feeding page as lists of rows, from the array the
\* service answers with; an event carries its scheduled time, its creation
\* time and its status.

MaxEvents == 22      \* events the service holds
HistoryLimit == 20   \* app.js:1071

\* app.js:1060 and 1167: (event.status || "").toLowerCase()
statusLowerCase(status) == IF status \in {"Pending", "PENDING"} THEN "pending" ELSE status

isPending(event) == statusLowerCase(event.status) = "pending"
isNotPending(event) == statusLowerCase(event.status) # "pending"

\* app.js:1063-1067: events.sort by created_at, descending; the sort is stable.
RECURSIVE insertEvent(_, _)
insertEvent(sorted, e) ==
    IF sorted = <<>> THEN <<e>>
    ELSE IF sorted[Len(sorted)].created_at >= e.created_at THEN Append(sorted, e)
    ELSE Append(insertEvent(SubSeq(sorted, 1, Len(sorted) - 1), e), sorted[Len(sorted)])

RECURSIVE sortEvents(_)
sortEvents(events) ==
    IF events = <<>> THEN <<>>
    ELSE insertEvent(sortEvents(SubSeq(events, 1, Len(events) - 1)), events[Len(events)])

\* app.js:1071: events.slice(0, 20)
sliceHistory(events) ==
    SubSeq(events, 1, IF Len(events) < HistoryLimit THEN Len(events) ELSE HistoryLimit)

\* app.js:1159-1175, from the settling of the fetch
pendingListSettled(s, reply) ==
    IF reply.status = "ok"
    THEN renderPendingFeedings(s, SelectSeq(reply.items, isPending))
    ELSE renderPendingFeedings(s, <<>>)

\* app.js:1046-1077, from the settling of the fetch
historyListSettled(s, reply) ==
    IF reply.status = "ok"
    THEN renderFeedingHistory(s, sliceHistory(sortEvents(SelectSeq(reply.items, isNotPending))))
    ELSE renderFeedingHistory(s, <<>>)

\* The arrays the service can hold: n events in one of four orders of
\* their creation times (ascending, descending, rotated, in equal pairs)
\* and one of four patterns of their statuses.
EventCounts == (0..3) \cup ((MaxEvents - 2)..MaxEvents)
Orders == {"ascending", "descending", "rotated", "paired"}
Patterns == {"executed", "mixed", "capital", "untagged"}

createdAt(order, i, n) ==
    CASE order = "ascending"  -> i
      [] order = "descending" -> n + 1 - i
      [] order = "rotated"    -> ((i + 2) % n) + 1
      [] OTHER                -> (i + 1) \div 2

statusAt(pattern, i) ==
    CASE pattern = "executed" -> "success"
      [] pattern = "mixed"    -> IF i % 6 = 0 THEN "pending"
                                 ELSE IF i % 2 = 1 THEN "success" ELSE "failed"
      [] pattern = "capital"  -> IF i % 8 = 1 THEN "Pending" ELSE "success"
      [] OTHER                -> IF i % 2 = 0 THEN "" ELSE IF i % 9 = 1 THEN "pending" ELSE "failed"

EventArray(n, order, pattern) ==
    [i \in 1..n |-> [feedtime |-> i, created_at |-> createdAt(order, i, n),
                     status |-> statusAt(pattern, i)]]

EventArrays ==
    {EventArray(n, order, pattern) : n \in EventCounts, order \in Orders, pattern \in Patterns}

InitFeedingLists ==
    /\ pendingView = <<>>
    /\ historyView = <<>>
    /\ message = NoneShown
    /\ disabled = [create |-> FALSE, edit |-> FALSE, delete |-> FALSE, refresh |-> FALSE]
    /\ localStorage = [feederTime |-> NoTime, feederQty |-> ""]
    /\ editModal = [shown |-> FALSE, original |-> NoTime]
    /\ deleteModal = [shown |-> FALSE, timestamp |-> NoTime]
    /\ backend \in EventArrays
    /\ dom = FeedingDom
    /\ currentPage = "overview"
    /\ currentTimeline = "day"
    /\ charts = "none"
    /\ timers = <<>>
    /\ isLoadingSensorData = FALSE
    /\ currentProfile = "undefined"
    /\ placeholders = FALSE
    /\ alerts = NoAlerts
    /\ loading = FALSE
    /\ net = EmptyBag
    /\ initPc = "start"
    /\ tornDown = FALSE
    /\ sent = {}

\* GET /feeding-events of loadPendingFeedings settles.
PendingListResponse(r) ==
    /\ Answered(r, "pendingFeedings")
    /\ Step(afterPendingFeedings(pendingListSettled(Settle(S, r), r.reply), r.awaiter))

\* GET /feeding-events of loadFeedingEvents settles.
HistoryListResponse(r) ==
    /\ Answered(r, "feedingEvents")
    /\ Step(afterFeedingEvents(historyListSettled(Settle(S, r), r.reply), r.awaiter))

\* The feeder carries out the first pending feeding the service holds: its
\* status becomes success.
FeederExecutes ==
    /\ \E i \in 1..Len(backend) :
            /\ isPending(backend[i])
            /\ \A j \in 1..(i - 1) : isNotPending(backend[j])
            /\ backend' = [backend EXCEPT ![i].status = "success"]
    /\ net' = net
    /\ sent' = {}
    /\ message' = NoneShown
    /\ UNCHANGED pageVars

NextFeedingLists ==
    \/ DOMContentLoaded
    \/ \E r \in BagToSet(net), o \in FeedingTankOutcomes : TankProfileResponse(r, o)
    \/ \E r \in BagToSet(net) : BackendHandles(r, TRUE, "")
    \/ \E r \in BagToSet(net) : BackendHandles(r, FALSE, "")
    \/ \E r \in BagToSet(net) : PendingListResponse(r)
    \/ \E r \in BagToSet(net) : HistoryListResponse(r)
    \/ RefreshFeedingHistory
    \/ FeederExecutes

SpecFeedingLists == InitFeedingLists /\ [][NextFeedingLists]_vars

----------------------------------------------------------------------------
\* The body of the answer to GET /feeding-events, as the two loads read it.
\* A body is an array of events, an object (with or without the field
\* items), null or a text.

ArrayOf(events) == [type |-> "array", elems |-> events]
ItemsOf(events) == [type |-> "object", items |-> ArrayOf(events)]
EmptyObject == [type |-> "object"]

\* app.js:1050-1072: the events of the body, filtered, sorted and cut; a
\* value without the method filter throws into the catch of line 1075.
historyBodySettled(s, reply) ==
    IF reply.status # "ok" THEN renderFeedingHistory(s, <<>>)
    ELSE LET body == reply.body
             events == IF truthy(body) /\ truthy(Prop(body, "items")) THEN Prop(body, "items")
                       ELSE IF body.type # "array" THEN ArrayOf(<<>>)
                       ELSE body
         IN  IF events.type # "array" THEN renderFeedingHistory(s, <<>>)
             ELSE renderFeedingHistory(s,
                      sliceHistory(sortEvents(SelectSeq(events.elems, isNotPending))))

\* app.js:1163-1175: (data.items || []).filter(...); reading a field of
\* null throws into the catch of line 1172.
pendingBodySettled(s, reply) ==
    IF reply.status # "ok" \/ reply.body.type = "null" THEN renderPendingFeedings(s, <<>>)
    ELSE LET items == Prop(reply.body, "items")
             list == IF truthy(items) THEN items ELSE ArrayOf(<<>>)
         IN  IF list.type # "array" THEN renderPendingFeedings(s, <<>>)
             ELSE renderPendingFeedings(s, SelectSeq(list.elems, isPending))

\* The events the service holds and the shapes it sends them in.
MaxBodyEvents == 3
BodyEvents ==
    {EventArray(n, order, pattern) :
        n \in 0..MaxBodyEvents, order \in {"ascending", "rotated"},
        pattern \in {"mixed", "capital", "untagged"}}
KnownBodies == {ArrayOf(events) : events \in BodyEvents} \cup {ItemsOf(events) : events \in BodyEvents}
UnknownBodies ==
    {EmptyObject, Null, Text("unavailable"), [type |-> "object", items |-> Null],
     [type |-> "object", events |-> ArrayOf(EventArray(2, "ascending", "capital"))]}

InitFeedingBodies ==
    /\ pendingView = <<>>
    /\ historyView = <<>>
    /\ message = NoneShown
    /\ disabled = [create |-> FALSE, edit |-> FALSE, delete |-> FALSE, refresh |-> FALSE]
    /\ localStorage = [feederTime |-> NoTime, feederQty |-> ""]
    /\ editModal = [shown |-> FALSE, original |-> NoTime]
    /\ deleteModal = [shown |-> FALSE, timestamp |-> NoTime]
    /\ backend \in KnownBodies \cup UnknownBodies
    /\ dom = FeedingDom
    /\ currentPage = "overview"
    /\ currentTimeline = "day"
    /\ charts = "none"
    /\ timers = <<>>
    /\ isLoadingSensorData = FALSE
    /\ currentProfile = "undefined"
    /\ placeholders = FALSE
    /\ alerts = NoAlerts
    /\ loading = FALSE
    /\ net = EmptyBag
    /\ initPc = "start"
    /\ tornDown = FALSE
    /\ sent = {}

\* The service answers a GET of the feeding events with the body it holds.
ServiceSendsBody(r) ==
    /\ r \in FeedingCalls(net)
    /\ r.reply = NoReply
    /\ net' = Replied(net, r, [status |-> "ok", body |-> backend, text |-> ""])
    /\ sent' = {}
    /\ message' = NoneShown
    /\ UNCHANGED <<pageVars, backend>>

\* GET /feeding-events of loadPendingFeedings settles with its body.
PendingBodyResponse(r) ==
    /\ Answered(r, "pendingFeedings")
    /\ Step(afterPendingFeedings(pendingBodySettled(Settle(S, r), r.reply), r.awaiter))

\* GET /feeding-events of loadFeedingEvents settles with its body.
HistoryBodyResponse(r) ==
    /\ Answered(r, "feedingEvents")
    /\ Step(afterFeedingEvents(historyBodySettled(Settle(S, r), r.reply), r.awaiter))

NextFeedingBodies ==
    \/ DOMContentLoaded
    \/ \E r \in BagToSet(net), o \in FeedingTankOutcomes : TankProfileResponse(r, o)
    \/ \E r \in BagToSet(net) : ServiceSendsBody(r)
    \/ \E r \in BagToSet(net) : BackendHandles(r, FALSE, "")
    \/ \E r \in BagToSet(net) : PendingBodyResponse(r)
    \/ \E r \in BagToSet(net) : HistoryBodyResponse(r)
    \/ RefreshFeedingHistory

SpecFeedingBodies == InitFeedingBodies /\ [][NextFeedingBodies]_vars

----------------------------------------------------------------------------
\* Alert derivation on the monitoring page: the answers of the service
\* carry their bodies.

MaxWindow == 3       \* readings in a window of several readings

AlertsDom == {"temperatureChart", "alertsList"}

\* Values a reading can carry, around the limits of the rules.
Temperatures == {Undefined, Num(23900), Num(24000), Num(30000), Num(30100)}
PhValues == {Undefined, Num(6490), Num(6500), Num(8000), Num(8010)}
AmmoniaValues == {Text("n/a"), Num(250), Num(251)}
WaterLevels == {Undefined, Num(-1000), Num(39000), Num(40000), Num(75000), Num(76000),
                Num(80000), Num(90000), Num(101000), Num(151000)}

Reading(ts, temperature, ph, ammonia, water_level) ==
    [timestamp |-> ts, temperature |-> temperature, ph |-> ph, ammonia |-> ammonia,
     water_level |-> water_level]

\* Windows of one reading, over every combination of the values above.
SingleWindows ==
    {<<Reading(1, t, p, a, w)>> :
        t \in Temperatures, p \in PhValues, a \in AmmoniaValues, w \in WaterLevels}

\* Windows of several readings in any order of their timestamps, equal
\* timestamps included; the readings differ in their temperature.
Timestamps == 1..3
WindowReadings ==
    {Reading(ts, t, Num(7000), Num(100), Num(90000)) :
        ts \in Timestamps, t \in {Num(23000), Num(25000), Num(32000)}}
SeveralWindows ==
    UNION {[1..n -> WindowReadings] : n \in 2..MaxWindow}

\* Answers of GET /readings: a window, no reading, a 2xx body without an
\* items array, or a failure (non-2xx status, network error).
OkReadings(items) == [status |-> "ok", items |-> items]
FailedReadings == [status |-> "error", items |-> <<>>]
MalformedReadings == [status |-> "malformed", items |-> <<>>]
ReadingsAnswers ==
    {OkReadings(w) : w \in SingleWindows \cup SeveralWindows \cup {<<>>}}
        \cup {FailedReadings, MalformedReadings}

\* Bodies of GET /tank-profile, by what they say of the water level.
ProfileBodies ==
    {<<>>,
     [appropriate_water_level |-> Null],
     [appropriate_water_level |-> Num(0)],
     [appropriate_water_level |-> Num(20000)],
     [appropriate_water_level |-> Num(50000)],
     [appropriate_water_level |-> Num(100000)],
     [target_water_level |-> Num(100000)]}
OkProfile(body) == [status |-> "ok", body |-> body]
FailedProfile == [status |-> "error", body |-> <<>>]

\* What the service answers to the fetches of the refresh cycle that follows.
CalmReading == Reading(4, Num(25000), Num(7000), Num(100), Num(90000))
AlarmReading == Reading(4, Num(31000), Num(9000), Num(300), Num(10000))
LaterAnswers(res) ==
    IF res = "sensorData"
    THEN {OkReadings(<<CalmReading>>), OkReadings(<<AlarmReading>>), OkReadings(<<>>),
          FailedReadings, MalformedReadings}
    ELSE {OkProfile([appropriate_water_level |-> Num(100000)]), FailedProfile}

\* A call the service has answered
WithReply(r, reply) ==
    [res |-> r.res, period |-> r.period, awaiter |-> r.awaiter, mounted |-> r.mounted,
     reply |-> reply]
HasReply(r) == "reply" \in DOMAIN r

\* The monitoring page during initialization (app.js:135-147): the
\* tank-profile fetch has settled, with a body or with a failure that left
\* the placeholder record and a retry timer, and the fetch of the readings
\* is in flight, the service having answered it.
InitAlerts ==
    /\ FeedingPageInit
    /\ dom = AlertsDom
    /\ currentPage = "monitoring"
    /\ currentTimeline = "day"
    /\ charts = "none"
    /\ \/ currentProfile \in ProfileBodies /\ timers = <<>>
       \/ currentProfile = PlaceholderRecord /\ timers = <<TimerEntry("tankProfile", TRUE)>>
    /\ isLoadingSensorData = TRUE
    /\ placeholders = FALSE
    /\ alerts = NoAlerts
    /\ loading = TRUE
    /\ \E reply \in ReadingsAnswers :
            net = SetToBag({WithReply([res |-> "sensorData", period |-> "1d",
                                       awaiter |-> "init", mounted |-> TRUE], reply)})
    /\ initPc = "sensorData"
    /\ tornDown = FALSE
    /\ sent = {}

\* The service answers a fetch of the refresh cycle or of a retry.
ServiceAnswers(r, reply) ==
    /\ r \in BagToSet(net)
    /\ ~HasReply(r)
    /\ reply \in LaterAnswers(r.res)
    /\ net' = (net (-) SetToBag({r})) (+) SetToBag({WithReply(r, reply)})
    /\ sent' = {}
    /\ UNCHANGED <<pageVars, message, backend>>

\* GET /readings settles with its body.
ReadingsAnswer(r) ==
    /\ r \in InFlight(net, "sensorData")
    /\ HasReply(r)
    /\ Step(Resume(sensorItemsSettled(Settle(S, r), r), r))

\* GET /tank-profile settles with its body.
TankProfileAnswer(r) ==
    /\ r \in InFlight(net, "tankProfile")
    /\ HasReply(r)
    /\ Step(Resume(tankProfileBodySettled(Settle(S, r), r), r))

NextAlerts ==
    \/ \E r \in BagToSet(net) : ReadingsAnswer(r)
    \/ \E r \in BagToSet(net) : TankProfileAnswer(r)
    \/ \E r \in BagToSet(net), reply \in LaterAnswers("sensorData") \cup LaterAnswers("tankProfile") :
            ServiceAnswers(r, reply)
    \/ AutoRefreshTick
    \/ TankProfileRetry
    \/ SensorDataRetry

SpecAlerts == InitAlerts /\ [][NextAlerts]_vars

----------------------------------------------------------------------------
\* The prediction panel and the settings form, on a page that shows both
\* (SpecTank).  The tank service holds one profile; a profile and the
\* settings of the form are records of JSON values, of which the volume and
\* the water level are carried (the four fish counts travel the same way).

\* app.js:49-53, in thousandths of a mg/L
AMMONIA_STATUS_THRESHOLDS == [healthy |-> 250, warning |-> 500]

\* app.js:819-836
getAmmoniaStatus(prediction) ==
    IF prediction < AMMONIA_STATUS_THRESHOLDS.healthy
    THEN [status |-> "Healthy range", className |-> "healthy"]
    ELSE IF prediction < AMMONIA_STATUS_THRESHOLDS.warning
    THEN [status |-> "Elevated - monitor closely", className |-> "warning"]
    ELSE [status |-> "Very high - toxic risk to fish", className |-> "danger"]

\* app.js:1022-1031: the class and the text updatePredictionPanel gives a value
panelStatus(predictedValue) ==
    IF predictedValue <= 250 THEN [status |-> "Safe", className |-> "safe"]
    ELSE IF predictedValue <= 500 THEN [status |-> "Caution", className |-> "caution"]
    ELSE [status |-> "Dangerous", className |-> "danger"]

\* app.js:1036-1038
getPredictedAmmonia == 480

\* app.js:1010-1033
updatePredictionPanel(s) ==
    LET shown == panelStatus(getPredictedAmmonia)
    IN  Show(s, "predictionStatus", shown.className, shown.status)

\* fetch() of a call that carries a body: in flight until it settles.
Post(s, res, payload, awaiter) ==
    [s EXCEPT !.net = @ (+) SetToBag({[res |-> res, payload |-> payload,
                                       awaiter |-> awaiter]}),
              !.sent = @ \cup {[res |-> res, payload |-> payload]}]

\* parseInt(v, 10): of a number its whole part, of a text without digits NaN
parseInt(v) == IF v.type = "number" /\ ~v.nan THEN Num((v.val \div 1000) * 1000) ELSE NaN

\* app.js:841-874, up to the await of predictAmmonia: the click handler of
\* #predictAmmoniaBtn; feederQtyValue is the text of #feederQty.
onPredictAmmoniaClick(s, feederQtyValue) ==
    LET profile == IF s.currentProfile = Undefined THEN <<>> ELSE s.currentProfile
    IN  IF ~truthy(Prop(profile, "tank_volume_liters")) /\ ~truthy(Prop(profile, "volume"))
        THEN Show(s, "alert", "", "Tank profile not loaded. Please refresh the page.")
        ELSE IF "feederQty" \notin s.dom \/ feederQtyValue = ""
        THEN Show(s, "alert", "", "Please enter a feeding quantity first to make a prediction.")
        ELSE LET tankVolume == nullish(Prop(profile, "tank_volume_liters"),
                                       nullish(Prop(profile, "volume"), Num(0)))
             IN  Post([s EXCEPT !.disabled.predict = TRUE], "prediction",
                      [tank_volume_liters |-> parseInt(tankVolume),
                       feed_quantity_g |-> parseFloat(feederQtyValue)],
                      "predict")

\* app.js:804-805: parseFloat(data.prediction_ammonia) || 0
predictionOf(body) ==
    LET x == parseNumber(Prop(body, "prediction_ammonia"))
    IN  IF truthy(x) THEN x.val ELSE 0

\* app.js:877-936, from the settling of the POST: the panel shows the status
\* of the prediction, or "Prediction failed" after the alert of line 911,
\* and the button is enabled again.
predictionSettled(s, r) ==
    LET s1 == [s EXCEPT !.disabled.predict = FALSE]
    IN  IF r.reply.status = "ok"
        THEN LET shown == getAmmoniaStatus(predictionOf(r.reply.body))
             IN  Show(s1, "predictionStatus", shown.className, shown.status)
        ELSE Show(s1, "predictionStatus", "danger", "Prediction failed")

SettingsInputs ==
    {"volumeInput", "targetLevelInput", "fishSmallInput", "fishMediumInput",
     "fishLargeInput", "fishExtraLargeInput"}

\* app.js:944-973, up to the await: settings are the parsed values of the form
saveSettings(s, settings) ==
    IF ~(SettingsInputs \subseteq s.dom) THEN s
    ELSE Post(s, "saveSettings", settings, "save")

\* app.js:975-997, from the settling of the PUT; the timer of line 991
\* closes the modal and writes nothing else.
saveSettled(s, r) ==
    IF r.reply.status = "ok"
    THEN Show(updateTankDisplay(s, [tank_volume_liters |-> r.payload.tank_volume_liters,
                                    appropriate_water_level |-> r.payload.appropriate_water_level]),
              "settingsMessage", "success", "Settings saved successfully!")
    ELSE Show(s, "settingsMessage", "error", "Failed to save settings. Please try again.")

\* app.js:153-156: the end of initializeApplication writes the panel
initUpdatesPanel(s) ==
    IF s.currentPage \in {"feeding", "overview"} THEN updatePredictionPanel(s) ELSE s

MaxSaves == 1        \* PUT /tank-profile calls in flight at once

TankDom == {"alertsList", "predictAmmoniaBtn", "feederQty", "predictedAmmonia",
            "predictionStatus", "settingsModal"} \cup SettingsInputs

ProfileStored == [tank_volume_liters |-> Num(100000), appropriate_water_level |-> Num(50000)]
LegacyStored == [volume |-> Num(80000), target_water_level |-> Num(40000)]
TankBodies == {ProfileStored, LegacyStored, [appropriate_water_level |-> Num(50000)]}
SettingsValues == {[tank_volume_liters |-> Num(200000), appropriate_water_level |-> Num(60000)]}
FeederQtyValues == {"", "5"}
PredictionBodies ==
    {[prediction_ammonia |-> v] : v \in {Num(249), Num(250), Num(251), Num(499), Num(500),
                                           Num(501), Text("n/a")}}
PredictionAnswers ==
    {[status |-> "ok", body |-> b] : b \in PredictionBodies} \cup {[status |-> "error", body |-> <<>>]}

InitTank ==
    /\ pendingView = {}
    /\ historyView = {}
    /\ message = NoneShown
    /\ disabled = [create |-> FALSE, edit |-> FALSE, delete |-> FALSE, refresh |-> FALSE,
                   predict |-> FALSE]
    /\ localStorage = [feederTime |-> NoTime, feederQty |-> ""]
    /\ editModal = [shown |-> FALSE, original |-> NoTime]
    /\ deleteModal = [shown |-> FALSE, timestamp |-> NoTime]
    /\ backend \in TankBodies
    /\ dom = TankDom
    /\ currentPage = "overview"
    /\ currentTimeline = "day"
    /\ charts = "none"
    /\ timers = <<>>
    /\ isLoadingSensorData = FALSE
    /\ currentProfile = Undefined
    /\ placeholders = FALSE
    /\ alerts = NoAlerts
    /\ loading = FALSE
    /\ net = EmptyBag
    /\ initPc = "start"
    /\ tornDown = FALSE
    /\ sent = {}

\* A call with the answer the service has given it
Answer(r, reply) == [f \in DOMAIN r \cup {"reply"} |-> IF f = "reply" THEN reply ELSE r[f]]

\* The tank service handles GET /tank-profile or PUT /tank-profile: it
\* sends the profile it holds, stores the settings, or fails.
TankServiceAnswers(r, ok) ==
    /\ r \in InFlight(net, "tankProfile") \cup InFlight(net, "saveSettings")
    /\ ~HasReply(r)
    /\ IF r.res = "tankProfile"
       THEN /\ net' = (net (-) SetToBag({r}))
                        (+) SetToBag({Answer(r, IF ok THEN OkProfile(backend) ELSE FailedProfile)})
            /\ backend' = backend
       ELSE /\ net' = (net (-) SetToBag({r}))
                        (+) SetToBag({Answer(r, [status |-> IF ok THEN "ok" ELSE "error"])})
            /\ backend' = IF ok THEN r.payload ELSE backend
    /\ sent' = {}
    /\ message' = NoneShown
    /\ UNCHANGED pageVars

\* The prediction endpoint answers.
PredictionServiceAnswers(r, reply) ==
    /\ r \in InFlight(net, "prediction")
    /\ ~HasReply(r)
    /\ net' = (net (-) SetToBag({r})) (+) SetToBag({Answer(r, reply)})
    /\ sent' = {}
    /\ message' = NoneShown
    /\ UNCHANGED <<pageVars, backend>>

\* GET /readings of the overview page settles with readings; the
\* prediction panel is written when initialization ends.
ReadingsResponse(r) ==
    /\ r \in InFlight(net, "sensorData")
    /\ LET s1 == Resume(sensorDataSettled(Settle(S, r), r.period, "data"), r)
       IN  Step(IF r.awaiter = "init" THEN initUpdatesPanel(s1) ELSE s1)

\* The operator clicks the predict button, which is not disabled.
OnPredictAmmoniaClick(feederQtyValue) ==
    /\ initPc # "start"
    /\ ~disabled.predict
    /\ Step(onPredictAmmoniaClick(S, feederQtyValue))

PredictionResponse(r) ==
    /\ r \in InFlight(net, "prediction")
    /\ HasReply(r)
    /\ Step(predictionSettled(Settle(S, r), r))

\* The operator submits the settings form.
SaveSettings(settings) ==
    /\ initPc # "start"
    /\ CountInFlight(net, "saveSettings") < MaxSaves
    /\ Step(saveSettings(S, settings))

SaveResponse(r) ==
    /\ r \in InFlight(net, "saveSettings")
    /\ HasReply(r)
    /\ Step(saveSettled(Settle(S, r), r))

NextTank ==
    \/ DOMContentLoaded
    \/ \E r \in BagToSet(net), ok \in BOOLEAN : TankServiceAnswers(r, ok)
    \/ \E r \in BagToSet(net), reply \in PredictionAnswers : PredictionServiceAnswers(r, reply)
    \/ \E r \in BagToSet(net) : TankProfileAnswer(r)
    \/ \E r \in BagToSet(net) : ReadingsResponse(r)
    \/ TankProfileRetry
    \/ \E q \in FeederQtyValues : OnPredictAmmoniaClick(q)
    \/ \E r \in BagToSet(net) : PredictionResponse(r)
    \/ \E settings \in SettingsValues : SaveSettings(settings)
    \/ \E r \in BagToSet(net) : SaveResponse(r)

SpecTank == InitTank /\ [][NextTank]_vars

----------------------------------------------------------------------------
TankRequest == [res |-> "tankProfile", period |-> "-"]
ReadingsRequest(timeline) == [res |-> "sensorData", period |-> TIMELINE_CONFIG(timeline).period]

RetryPending(res) == PendingTimers(S, res) > 0
AnyRetryPending == \E res \in Resources : RetryPending(res)
refreshInterval == PendingTimers(S, "refresh") > 0

\* C1: in every reachable state at most one readings fetch is in flight,
\* whatever the interleaving of initialization, timeline selections,
\* auto-refresh ticks and retry timers.
C1_OneSensorFetchInFlight == CountInFlight(net, "sensorData") <= 1

\* A timeline was selected after initialization while the readings fetch of
\* another period was in flight, and that fetch is still the only one.
C1_Witness ==
    /\ initPc = "done"
    /\ CountInFlight(net, "sensorData") = 1
    /\ \E r \in InFlight(net, "sensorData") :
            r.period # TIMELINE_CONFIG(currentTimeline).period

\* C2: once no readings fetch is in flight, the window the charts show is
\* the one fetched for the period of the current timeline.
C2_ShownWindowMatchesTimeline ==
    (CountInFlight(net, "sensorData") = 0 /\ charts # "none" /\ ~placeholders)
        => charts = TIMELINE_CONFIG(currentTimeline).period

C4_SelectTimelineFetches ==
    [][\A p \in Timelines :
            SelectTimeline(p) => sent' = {ReadingsRequest(p)}]_vars

\* C5: at most one tank-profile fetch is in flight.
C5_OneTankFetchInFlight == CountInFlight(net, "tankProfile") <= 1

\* C6: for each polled resource at most one retry timer is pending.
C6_OneRetryTimerPerResource ==
    \A res \in Resources : PendingTimers(S, res) <= 1

\* C7: a timeline change made while a sensor-data retry timer is pending
\* cancels that timer.
C7_TimelineChangeCancelsRetry ==
    [][\A p \in Timelines :
            (RetryPending("sensorData") /\ SelectTimeline(p))
                => ~RetryPending("sensorData")']_vars

\* C8: a tank-profile fetch that fails after a successful one leaves the
\* stored profile as it was.
C8_FailedFetchKeepsProfile ==
    [][\A r \in BagToSet(net) :
            (currentProfile \in ServerProfiles /\ TankProfileResponse(r, "error"))
                => currentProfile' = currentProfile]_vars

\* C9: when the teardown handler has run, the refresh interval is cleared,
\* no retry timer is pending and no chart is left.
C9_TeardownCancelsEverything ==
    [][BeforeUnload
          => (~refreshInterval' /\ ~AnyRetryPending' /\ charts' = "none")]_vars

\* C10: the completion of a fetch that was issued before the teardown and
\* settles after it changes neither the stored profile, the charts, the
\* alerts nor the retry timers.
C10_NoMutationAfterTeardown ==
    [][\A r \in BagToSet(net) :
            (/\ tornDown
             /\ r.mounted
             /\ \/ \E o \in TankOutcomes : TankProfileResponse(r, o)
                \/ \E o \in SensorOutcomes : SensorDataResponse(r, o))
                => /\ currentProfile' = currentProfile
                   /\ charts' = charts
                   /\ alerts' = alerts
                   /\ timers' = timers]_vars

\* C11: tank profile and readings are independent in a refresh cycle: a tick
\* issues both requests whatever became of the other resource before (the
\* readings request unless one is in flight), a profile that arrives is
\* stored and readings that arrive are drawn, whatever the state the other
\* resource's failure left.
C11_IndependentFailureDomains ==
    [][/\ AutoRefreshTick
            => /\ TankRequest \in sent'
               /\ isLoadingSensorData \/ ReadingsRequest(currentTimeline) \in sent'
       /\ \A r \in BagToSet(net) :
            /\ \A p \in ServerProfiles :
                    TankProfileResponse(r, p) => currentProfile' = p
            /\ (SensorDataResponse(r, "data") /\ "temperatureChart" \in dom)
                    => (charts' = r.period /\ ~placeholders')]_vars

\* Both resources failed (the placeholder profile is stored, the chart
\* placeholders are shown) and the tick that ran last issued both requests.
C11_Witness ==
    /\ currentProfile = PlaceholderProfile
    /\ placeholders
    /\ sent = {TankRequest, ReadingsRequest(currentTimeline)}

\* C12: when both fetches of a refresh cycle have completed, the alerts on
\* display were derived with the profile obtained in that cycle, whatever
\* the order of the two responses (stated for cycles whose profile fetches
\* succeed: the alerts and the display both carry a profile of the server).
C12_AlertsUseProfileOfCycle ==
    (/\ refreshInterval
     /\ net = EmptyBag
     /\ alerts.kind = "derived"
     /\ alerts.profile \in ServerProfiles
     /\ currentProfile \in ServerProfiles)
        => alerts.profile = currentProfile

\* C14: a failed fetch awaited by initializeApplication is not thrown to it:
\* the placeholder is shown, the retry timer is set, and initialization goes
\* on with its remaining steps (the readings after the profile; the refresh
\* interval of the monitoring page after the readings).
C14_PollingFailureNotThrownToInit ==
    [][\A r \in BagToSet(net) :
          /\ (r.awaiter = "init" /\ TankProfileResponse(r, "error"))
                => /\ currentProfile' = PlaceholderProfile
                   /\ RetryPending("tankProfile")'
                   /\ initPc' \in {"sensorData", "done"}
                   /\ (currentPage \in {"overview", "monitoring"}
                            /\ ~isLoadingSensorData)
                        => ReadingsRequest(currentTimeline) \in sent'
          /\ \A o \in {"invalid", "error"} :
                (r.awaiter = "init" /\ SensorDataResponse(r, o))
                    => /\ "temperatureChart" \in dom => placeholders'
                       /\ RetryPending("sensorData")'
                       /\ initPc' = "done"
                       /\ currentPage = "monitoring" => refreshInterval']_vars

\* The overview page finished initializing although its profile fetch had
\* failed: the retry of the profile is pending and the readings that came
\* next were put on display.
C14_Witness ==
    /\ initPc = "done"
    /\ currentPage = "overview"
    /\ currentProfile = PlaceholderProfile
    /\ RetryPending("tankProfile")
    /\ alerts.kind = "derived"

BothInitialFetchesFail(r) ==
    /\ r.awaiter = "init"
    /\ currentProfile = PlaceholderProfile
    /\ SensorDataResponse(r, "error")

\* C15: when both initial fetches fail, initializeApplication fails and is
\* run again 5 seconds later.
C15_InitRetriedAfterFailedFetches ==
    [][\A r \in BagToSet(net) : BothInitialFetchesFail(r) => initPc' = "retry"]_vars

\* C15, as the code has it: no outcome of the initial fetches makes
\* initializeApplication fail, so its 5-second retry is never set; when both
\* initial fetches fail, initialization completes and the readings are
\* retried on their own 60-second timer.
C15_InitCompletesAfterFailedFetches ==
    [][/\ initPc' # "retry"
       /\ \A r \in BagToSet(net) :
            BothInitialFetchesFail(r)
                => (initPc' = "done" /\ RetryPending("sensorData")')]_vars

\* Initialization is complete with both resources failed and both
\* 60-second retries pending.
C15_Witness ==
    /\ initPc = "done"
    /\ currentProfile = PlaceholderProfile
    /\ alerts = NoDataAlert
    /\ RetryPending("tankProfile")
    /\ RetryPending("sensorData")

\* C13: while the feeding page is the loaded page, the refresh interval
\* runs (and its tick fetches the feeding events).
C13_FeedingPageRefreshes ==
    (currentPage = "feeding" /\ initPc = "done") => refreshInterval

\* The quantity lies in (0, 10] and the time is not empty.
ValidFeeding(datetimeValue, qtyText) ==
    /\ datetimeValue # NoTime
    /\ ~parseFloat(qtyText).nan
    /\ parseFloat(qtyText).val > 0
    /\ parseFloat(qtyText).val <= 10

\* C16: a create or an edit submitted with a quantity outside (0, 10], a
\* quantity that is no number or an empty time sends no request and shows
\* the validation message.
C16_InvalidInputSendsNothing ==
    [][\A d \in EditTimeValues, q \in EditQtyTexts :
            (~ValidFeeding(d, q) /\ (SubmitFeederForm(d, q) \/ EditPendingSubmit(d, q)))
                => (sent' = {} /\ message'.text = ValidationText)]_vars

\* C17: while the delete confirmation has never been opened (the modal
\* holds no timestamp), no step sends a DELETE and none disables the delete
\* button: confirmDeletePending() called in such a state does nothing.
C17_CommitWithoutConfirmationSendsNothing ==
    [][deleteModal.timestamp = NoTime
            => /\ \A c \in sent' : c.res # "deleteFeeding"
               /\ ~disabled'.delete]_vars

\* A pending feeding is on display, the delete confirmation was never
\* opened, and a step that sent nothing and wrote no message (the commit is
\* one) has just run with the delete button enabled.
C17_Witness ==
    /\ initPc = "done"
    /\ pendingView # {}
    /\ deleteModal.timestamp = NoTime
    /\ ~disabled.delete
    /\ sent = {}
    /\ message = NoneShown

PendingListRequest == [res |-> "pendingFeedings", payload |-> NoPayload]

\* The step delivers the answer of call r to the page.
Settled(r) == r.reply # NoReply /\ CopiesIn(r, net') < CopiesIn(r, net)

\* C18: create inserts nothing on its own: the submit handler and the
\* completion of the POST leave both tables as they are, a table changes
\* only when a GET of the feeding events settles, and a successful POST is
\* followed by that GET; a failed POST leaves the stored last-used time and
\* quantity as they are, sends nothing and shows the error text of the
\* service.
C18_CreateChangesViewsByRefetchOnly ==
    [][/\ (pendingView' # pendingView \/ historyView' # historyView)
            => \E r \in InFlight(net, "pendingFeedings") \cup InFlight(net, "feedingEvents") :
                    Settled(r)
       /\ localStorage' # localStorage
            => \E r \in InFlight(net, "createFeeding") :
                    Settled(r) /\ r.reply.status = "ok"
       /\ \A r \in InFlight(net, "createFeeding") :
            /\ (Settled(r) /\ r.reply.status = "ok")
                    => sent' = {PendingListRequest}
            /\ (Settled(r) /\ r.reply.status = "error")
                    => /\ localStorage' = localStorage
                       /\ sent' = {}
                       /\ message'.el = "feeder" /\ message'.type = "error"
                       /\ r.reply.text # "" => message'.text = r.reply.text]_vars

\* A POST has just failed with the error text of the service on display,
\* while both tables hold rows and the values of an earlier create are
\* stored.
C18_Witness ==
    /\ message = [el |-> "feeder", type |-> "error", text |-> "feed rejected"]
    /\ pendingView # {}
    /\ historyView # {}
    /\ localStorage.feederTime # NoTime
    /\ ~disabled.create

PendingEvents(b) == {e \in b : e.status = "pending"}

\* The PUT leaves the time as editPendingFeeding filled it in.
QuantityOnly(r) ==
    r.payload.new_timestamp = addSeconds(editFeedingTime(r.payload.timestamp))

\* C19: a feeding created for time T and then edited in its quantity only
\* is the one pending event, with the new quantity and still under T; the
\* pending table shows it after the re-fetch of the edit, and a delete
\* started from its row sends T.  (The operator runs one operation at a
\* time.)
C19_EditRoundTrip ==
    [][/\ \A d \in EditTimeValues, q \in EditQtyTexts :
            (EditPendingSubmit(d, q) /\ ValidFeeding(d, q))
                => \E c \in sent' :
                        /\ sent' = {c}
                        /\ c.res = "updateFeeding"
                        /\ c.payload.timestamp = editModal.original
                        /\ d = editFeedingTime(editModal.original)
                                => c.payload.new_timestamp = c.payload.timestamp
       /\ \A r \in BagToSet(net) :
            /\ (UpdateResponse(r) /\ r.reply.status = "ok" /\ QuantityOnly(r))
                    => PendingEvents(backend) =
                            {[feedtime |-> r.payload.timestamp, qty |-> r.payload.qty,
                              status |-> "pending"]}
            /\ (PendingFeedingsResponse(r) /\ r.reply.status = "ok")
                    => pendingView' = PendingEvents(backend)
       /\ \A row \in pendingView :
            DeletePendingFeeding(row) => deleteModal'.timestamp = row.feedtime
       /\ (ConfirmDeletePending /\ deleteModal.timestamp # NoTime)
            => sent' = {[res |-> "deleteFeeding",
                         payload |-> [timestamp |-> deleteModal.timestamp]]}]_vars

\* The pending table shows the one feeding for T1 with the edited quantity
\* 7, and the delete just committed for its row sent T1 with its seconds.
C19_Witness ==
    /\ pendingView = {[feedtime |-> Stamp("T1", ":00"), qty |-> 7, status |-> "pending"]}
    /\ sent = {[res |-> "deleteFeeding",
                 payload |-> [timestamp |-> Stamp("T1", ":00")]]}

Controls == {"create", "edit", "delete"}
AwaitedBy(k) == {r \in BagToSet(net) : r.awaiter = k}

\* C20: the button of create, edit and delete is disabled exactly while a
\* call of its operation (the mutation or its re-fetches) is in flight, so
\* it is enabled again after every outcome, and each operation has at most
\* one call in flight.
C20_ControlDisabledWhileInFlight ==
    \A k \in Controls :
        /\ disabled[k] <=> AwaitedBy(k) # {}
        /\ BagCardinality([r \in AwaitedBy(k) |-> CopiesIn(r, net)]) <= 1

\* The POST of a create is in flight with its button disabled while an
\* edit has just failed and left its button enabled.
C20_Witness ==
    /\ disabled.create
    /\ InFlight(net, "createFeeding") # {}
    /\ message.el = "edit" /\ message.type = "error" /\ message.text = "HTTP 500"
    /\ ~disabled.edit

Mutations == {"createFeeding", "updateFeeding", "deleteFeeding"}
MutationsSent(calls) == {c \in calls : c.res \in Mutations}

\* The step delivers the refusal or the failure of a create, edit or delete.
FailedMutationSettles ==
    \E r \in FeedingCalls(net) :
        r.res \in Mutations /\ Settled(r) /\ r.reply.status = "error"

\* C21: a failed create, edit or delete is not retried: the step that
\* delivers the failure sends no call and sets no timer; a step sends at
\* most one mutation, and only a step in which the operator starts the
\* operation with its enabled button (which that step disables) sends one.
C21_FailedMutationNotRetried ==
    [][/\ Cardinality(MutationsSent(sent')) <= 1
       /\ MutationsSent(sent') # {}
            => \E k \in Controls : ~disabled[k] /\ disabled'[k]
       /\ FailedMutationSettles => (sent' = {} /\ timers' = timers)]_vars

\* A DELETE has just failed: its error is on display, its button is enabled
\* again, nothing was sent and no call is in flight.
C21_Witness ==
    /\ message = [el |-> "delete", type |-> "error", text |-> "feed rejected"]
    /\ ~disabled.delete
    /\ sent = {}
    /\ timers = <<>>
    /\ CountFeedingCalls(net) = 0

\* After the step no pending-list fetch and no mutation remains in flight,
\* so no further answer for the pending table is to come.
LastPendingAnswer ==
    \A q \in FeedingCalls(net') : q.res \notin Mutations \cup {"pendingFeedings"}

\* C22: the answer of a load of the pending list that is not a mutation's
\* own re-fetch (the load of initialization) does not remain on display in
\* place of the result of a mutation: when it is delivered as the last
\* answer for the pending table, the table shows the pending events the
\* service holds.
C22_StaleRefreshNeverRemains ==
    [][\A r \in InFlight(net, "pendingFeedings") :
            (Settled(r) /\ r.reply.status = "ok" /\ r.awaiter \notin Controls
                /\ LastPendingAnswer)
                => pendingView' = PendingEvents(backend')]_vars

----------------------------------------------------------------------------
\* The alert list, as the claims describe it.

\* The step delivers the answer of the readings fetch r to the page.
ReadingsDelivered(r) == HasReply(r) /\ CopiesIn(r, net') < CopiesIn(r, net)

\* The step delivers a window of the one reading x.
OneReadingDelivered(r, x) == ReadingsDelivered(r) /\ r.reply.items = <<x>>

Titles(list) == {list[i].title : i \in 1..Len(list)}
Levels(list) == {list[i].level : i \in 1..Len(list)}

\* C23: when the window is empty the list holds one record, the info
\* record that no data is available, and nothing else.
C23_NoReadingGivesInfoOnly ==
    [][\A r \in InFlight(net, "sensorData") :
            (ReadingsDelivered(r) /\ r.reply.items = <<>>)
                => /\ alerts'.kind = "rendered"
                   /\ Len(alerts'.list) = 1
                   /\ alerts'.list[1].level = "info"
                   /\ alerts'.list[1].title = "No data available to check alerts"]_vars

\* The service answered with an empty window (no retry is pending as after
\* a failure): the list holds the info record, the placeholders are shown.
C23_Witness ==
    /\ alerts = Rendered(<<InfoRecord>>)
    /\ placeholders
    /\ ~isLoadingSensorData
    /\ \A i \in 1..Len(timers) : timers[i].res # "sensorData"

IsNumberIn(v, lo, hi) == v.type = "number" /\ ~v.nan /\ v.val >= lo /\ v.val <= hi

\* The levels a profile can give, and the profiles that give level a.
LevelValues == {20000, 50000, 100000}
ProfilesWithLevel(a) ==
    {[appropriate_water_level |-> Num(a)], [target_water_level |-> Num(a)]}

\* The rule of the water level for a level w of the reading and an
\* appropriate level a: centimetres if a >= 50 and w <= 1.5 a, low under
\* 0.8 a; else a percentage if w is in [0,100], low under 80.
ExpectedLow(w, a) ==
    IF a >= 50000 /\ 1000 * w <= 1500 * a THEN 1000 * w < 800 * a
    ELSE IF w >= 0 /\ w <= 100000 THEN w < 80000
    ELSE FALSE

\* The reading's water level satisfies the threshold of the profile: the
\* rule does not find it low against the level the profile gives, nor, for
\* the text of the placeholder record (which is not a level of 50 or more),
\* as a percentage; a profile that gives nothing sets no threshold.
WaterLevelSatisfied(x, profile) ==
    x.water_level.type = "number"
        => /\ \A a \in LevelValues :
                profile \in ProfilesWithLevel(a) => ~ExpectedLow(x.water_level.val, a)
           /\ profile = PlaceholderRecord => ~ExpectedLow(x.water_level.val, 0)

Parameter(alert) ==
    CASE alert.title \in {"Low Temperature", "High Temperature"} -> 1
      [] alert.title \in {"Low pH", "High pH"} -> 2
      [] alert.title = "High Ammonia Detected" -> 3
      [] alert.title = "Low Water Level" -> 4
      [] OTHER -> 0

AlertsOf(list, parameter) == {i \in 1..Len(list) : Parameter(list[i]) = parameter}

Outside(v, lo, hi) == v.type = "number" /\ ~v.nan /\ (v.val < lo \/ v.val > hi)

\* C25: for the reading of a one-reading window there is a danger alert
\* for temperature exactly when it is under 24 or over 30, a caution alert
\* for pH exactly when it is under 6.5 or over 8.0, a danger alert for
\* ammonia exactly when it is over 0.25 (the limits themselves raise
\* nothing); every combination occurs, with at most one alert per
\* parameter, in the order temperature, pH, ammonia, water level.
C25_ThresholdRules ==
    [][\A r \in InFlight(net, "sensorData") :
        \A x \in {r.reply.items[i] : i \in 1..(IF ReadingsDelivered(r)
                                               THEN Len(r.reply.items) ELSE 0)} :
            OneReadingDelivered(r, x)
                => LET list == alerts'.list
                   IN  /\ AlertsOf(list, 1) # {} <=> Outside(x.temperature, 24000, 30000)
                       /\ AlertsOf(list, 2) # {} <=> Outside(x.ph, 6500, 8000)
                       /\ AlertsOf(list, 3) # {}
                            <=> (x.ammonia.type = "number" /\ x.ammonia.val > 250)
                       /\ \A i \in AlertsOf(list, 1) \cup AlertsOf(list, 3) :
                            list[i].level = "danger"
                       /\ \A i \in AlertsOf(list, 2) : list[i].level = "caution"
                       /\ \A i, j \in 1..Len(list) :
                            i < j => Parameter(list[i]) < Parameter(list[j])]_vars

\* All four rules have fired for one reading: temperature over 30, pH under
\* 6.5, ammonia over 0.25 and a low water level, in that order.
C25_Witness ==
    /\ alerts.kind = "rendered"
    /\ Len(alerts.list) = 4
    /\ alerts.list[1].title = "High Temperature" /\ alerts.list[1].value = 30100
    /\ alerts.list[2].title = "Low pH" /\ alerts.list[2].value = 6490
    /\ alerts.list[3].title = "High Ammonia Detected" /\ alerts.list[3].value = 251
    /\ alerts.list[4].title = "Low Water Level"

\* C26: with an appropriate level a and a water level w, there is a
\* caution alert for the water level exactly when the rule finds w low:
\* centimetres if a >= 50 and w <= 1.5 a, low under 0.8 a; else a
\* percentage if w is in [0,100], low under 80; else nothing.  (100, 75)
\* and (20, 75) are low, (20, 90) is not.
C26_WaterLevelUnitResolution ==
    [][/\ ExpectedLow(75000, 100000) /\ ExpectedLow(75000, 20000) /\ ~ExpectedLow(90000, 20000)
       /\ \A r \in InFlight(net, "sensorData"), a \in LevelValues :
            \A x \in {r.reply.items[i] : i \in 1..(IF ReadingsDelivered(r)
                                                   THEN Len(r.reply.items) ELSE 0)} :
                (/\ OneReadingDelivered(r, x)
                 /\ x.water_level.type = "number"
                 /\ currentProfile \in ProfilesWithLevel(a))
                    => /\ AlertsOf(alerts'.list, 4) # {} <=> ExpectedLow(x.water_level.val, a)
                       /\ \A i \in AlertsOf(alerts'.list, 4) :
                            alerts'.list[i].level = "caution"]_vars

\* A water level of 39 under an appropriate level of 50 was read as
\* centimetres and found low against 0.8 * 50 = 40, next to the alert of
\* the temperature of the same reading.
C26_Witness ==
    /\ currentProfile = [appropriate_water_level |-> Num(50000)]
    /\ alerts = Rendered(<<Alert("danger", "Low Temperature", 23900, 24000),
                           Alert("caution", "Low Water Level", 39000, 40000)>>)

\* The profile stored gives no appropriate water level: it is the record
\* stored after a failed fetch, or a body without the field.
NoLevelObtained(profile) ==
    profile \in {PlaceholderRecord, <<>>, [appropriate_water_level |-> Null]}

\* C27: while the profile stored gives no appropriate water level, a
\* recomputation produces no water-level alert, whatever the reading.
C27_NoWaterAlertWithoutLevel ==
    [][\A r \in InFlight(net, "sensorData") :
            (ReadingsDelivered(r) /\ NoLevelObtained(currentProfile)
                /\ alerts'.kind = "rendered")
                => "Low Water Level" \notin Titles(alerts'.list)]_vars

IsLatest(x, items) ==
    /\ \E i \in 1..Len(items) : items[i] = x
    /\ \A i \in 1..Len(items) : items[i].timestamp <= x.timestamp

\* C28: the list is derived from a reading of the window with the greatest
\* timestamp, wherever it stands in the response: it is the list that the
\* window of that reading alone gives under the same profile.
C28_AlertsFromLatestReading ==
    [][\A r \in InFlight(net, "sensorData") :
            (ReadingsDelivered(r) /\ r.reply.status = "ok" /\ r.reply.items # <<>>)
                => \E i \in 1..Len(r.reply.items) :
                        /\ IsLatest(r.reply.items[i], r.reply.items)
                        /\ alerts'.list =
                                renderAlerts(alertsArray(<<r.reply.items[i]>>,
                                                         currentProfile))]_vars

\* The list shows the temperature 23.0, which only a reading of the
\* windows of several readings carries.
C28_Witness ==
    alerts = Rendered(<<Alert("danger", "Low Temperature", 23000, 24000)>>)

\* The list that a window and a profile give.
ListFor(items, profile) ==
    IF items = <<>> THEN <<InfoRecord>>
    ELSE renderAlerts(alertsArray(sortReadings(items), profile))

\* C29: the list after a recomputation is the one its window and the
\* profile stored give, whatever the list held before: equal inputs give
\* equal lists, and a calm reading leaves the success record alone.
C29_AlertsRecomputedNotAccumulated ==
    [][\A r \in InFlight(net, "sensorData") :
            ReadingsDelivered(r)
                => /\ alerts' = Rendered(ListFor(r.reply.items, currentProfile))
                   /\ r.reply.items = <<CalmReading>>
                        => alerts'.list = <<SuccessRecord>>]_vars

\* A refresh cycle after the first window has delivered the alarm reading:
\* the list holds its four alerts and nothing of the list before.
C29_Witness ==
    /\ initPc = "done"
    /\ alerts = Rendered(<<Alert("danger", "High Temperature", 31000, 30000),
                           Alert("caution", "High pH", 9000, 8000),
                           Alert("danger", "High Ammonia Detected", 300, 250),
                           Alert("caution", "Low Water Level", 10000, 80000)>>)

----------------------------------------------------------------------------
\* The tables hold the rows the loads are to leave: at most 20 history
\* rows, most recent first by creation time, none of them pending, and only
\* pending rows in the pending table.
FeedingListsNormalised ==
    /\ Len(historyView) <= 20
    /\ \A i, j \in 1..Len(historyView) :
            i < j => historyView[i].created_at >= historyView[j].created_at
    /\ \A i \in 1..Len(historyView) : historyView[i].status \notin {"pending", "Pending"}
    /\ \A i \in 1..Len(pendingView) : pendingView[i].status \in {"pending", "Pending"}

\* C30: after every load the history holds at most 20 rows, most recent
\* first, none of them pending, the pending table holds pending events
\* only, and no event has a row in both tables.
C30_FeedingListsNormalised ==
    /\ FeedingListsNormalised
    /\ \A i \in 1..Len(pendingView), j \in 1..Len(historyView) :
            pendingView[i].feedtime # historyView[j].feedtime

----------------------------------------------------------------------------
\* The events of a body in one of the two known shapes.
EventsOfBody(body) == IF body.type = "array" THEN body.elems ELSE body.items.elems

\* The answer r.reply with its events sent as {items: [...]}.
AsItems(r) == [r.reply EXCEPT !.body = ItemsOf(EventsOfBody(@))]

\* The step that delivers the history's answer leaves the history that
\* {items: [...]} gives, and an empty one for a body of an unknown shape.
HistorySameForBothShapes ==
    \A r \in InFlight(net, "feedingEvents") :
        (Settled(r) /\ r.reply.status = "ok")
            => IF r.reply.body \in KnownBodies
               THEN historyView' = historyBodySettled(S, AsItems(r)).historyView
               ELSE historyView' = <<>>

\* The same of the pending table.
PendingSameForBothShapes ==
    \A r \in InFlight(net, "pendingFeedings") :
        (Settled(r) /\ r.reply.status = "ok")
            => IF r.reply.body \in KnownBodies
               THEN pendingView' = pendingBodySettled(S, AsItems(r)).pendingView
               ELSE pendingView' = <<>>

HistoryShapesAgree == [][HistorySameForBothShapes]_vars

\* C31: for the same events the pending view and the history view are the
\* same whether the service answered with a bare array or with
\* {items: [...]}, and a body of an unknown shape gives an empty list.
C31_BothBodyShapesGiveSameViews ==
    [][HistorySameForBothShapes /\ PendingSameForBothShapes]_vars

----------------------------------------------------------------------------
\* The step delivers the answer of the tank-profile fetch r to the page.
ProfileDelivered(r) == HasReply(r) /\ CopiesIn(r, net') < CopiesIn(r, net)

\* C32: a tank-profile fetch that succeeds leaves as current profile the
\* body of its answer and nothing of the profile stored before; a second
\* run that is answered with the body of the first leaves the profile as
\* the first run left it.
C32_TankProfileFetchIdempotent ==
    [][\A r \in InFlight(net, "tankProfile") :
            (ProfileDelivered(r) /\ r.reply.status = "ok")
                => /\ currentProfile' = r.reply.body
                   /\ currentProfile = r.reply.body => currentProfile' = currentProfile]_vars

\* A fetch of the refresh cycle has been answered with the body that the
\* fetch before it stored.
C32_Witness ==
    /\ initPc = "done"
    /\ currentProfile = [appropriate_water_level |-> Num(100000)]
    /\ \E r \in InFlight(net, "tankProfile") :
            HasReply(r) /\ r.reply.status = "ok" /\ r.reply.body = currentProfile

----------------------------------------------------------------------------
\* The step delivers the answer of the call r to the page.
AnswerDelivered(r) == HasReply(r) /\ CopiesIn(r, net') < CopiesIn(r, net)

\* The three levels of the predicted-ammonia status, by the class shown.
StatusLevel(className) ==
    CASE className \in {"safe", "healthy"}    -> "safe"
      [] className \in {"caution", "warning"} -> "caution"
      [] OTHER                                -> "dangerous"

ExpectedStatusLevel(v) ==
    IF v <= 250 THEN "safe" ELSE IF v <= 500 THEN "caution" ELSE "dangerous"

\* The placeholder panel classifies the value the endpoint answered with
\* by the boundaries of the claim.
PlaceholderBoundariesStep ==
    \A r \in InFlight(net, "prediction") :
        (AnswerDelivered(r) /\ r.reply.status = "ok")
            => StatusLevel(panelStatus(predictionOf(r.reply.body)).className)
                   = ExpectedStatusLevel(predictionOf(r.reply.body))

\* The panel of the prediction result does.
ResultBoundariesStep ==
    \A r \in InFlight(net, "prediction") :
        (AnswerDelivered(r) /\ r.reply.status = "ok")
            => /\ message'.el = "predictionStatus"
               /\ StatusLevel(message'.type) = ExpectedStatusLevel(predictionOf(r.reply.body))

PlaceholderPanelBoundaries == [][PlaceholderBoundariesStep]_vars

\* C33: a predicted value up to 0.25 is shown as safe, one above 0.25 and up
\* to 0.5 as caution, one above 0.5 as dangerous, by the panel of the
\* prediction result and by the placeholder panel alike.
C33_PredictionStatusBoundaries ==
    [][ResultBoundariesStep /\ PlaceholderBoundariesStep]_vars

----------------------------------------------------------------------------
\* C38: while the profile stored is the record of a failed tank-profile
\* fetch, no handler run sends a request to the prediction endpoint.
C38_NoPredictionWithoutProfile ==
    [][currentProfile = PlaceholderRecord
            => \A c \in sent' : c.res # "prediction"]_vars

\* Before the first tank-profile fetch has settled a click sends nothing.
NoPredictionBeforeProfile ==
    [][currentProfile = Undefined => \A c \in sent' : c.res # "prediction"]_vars

----------------------------------------------------------------------------
\* The fields saveSettings stores of the settings it sent.
SavedProfiles == SettingsValues

\* A save settles as the claim says: a success stores the settings sent, a
\* failure leaves the profile as it is.
SaveSettlesStep ==
    \A r \in InFlight(net, "saveSettings") :
        AnswerDelivered(r)
            => IF r.reply.status = "ok"
               THEN currentProfile' = r.payload
               ELSE currentProfile' = currentProfile

\* The answer of the tank-profile fetch of initialization, in flight since
\* before any save was submitted, leaves the settings a save has stored.
OlderFetchKeepsSavedStep ==
    \A r \in InFlight(net, "tankProfile") :
        (AnswerDelivered(r) /\ r.awaiter = "init" /\ currentProfile \in SavedProfiles)
            => currentProfile' = currentProfile

SaveSettles == [][SaveSettlesStep]_vars

\* C39: the answer of a tank-profile fetch that was in flight when a save
\* was submitted does not replace the settings the save has stored; a save
\* that succeeds stores its settings, a save that fails leaves the profile
\* as it is.
C39_SavedSettingsNotReplacedByOlderFetch ==
    [][OlderFetchKeepsSavedStep /\ SaveSettlesStep]_vars

----------------------------------------------------------------------------
\* The last handler run issued a fetch of the resource.
FetchAttempted(res) == \E c \in sent : c.res = res

----------------------------------------------------------------------------
\* C35: the guard of the readings fetch is set exactly while a readings
\* fetch is in flight, and so is the loading indicator shown: once the
\* fetch has settled, whatever its outcome, both are released, and a
\* trigger that finds the guard released starts a fetch.
C35_GuardReleasedOnEveryPath ==
    /\ isLoadingSensorData <=> CountInFlight(net, "sensorData") > 0
    /\ loading <=> isLoadingSensorData

\* A readings fetch has failed and settled: the retry is pending, the guard
\* is released and the indicator is hidden.
C35_Witness ==
    /\ RetryPending("sensorData")
    /\ CountInFlight(net, "sensorData") = 0
    /\ ~isLoadingSensorData
    /\ ~loading
    /\ placeholders

----------------------------------------------------------------------------
\* The retry timers pending for the readings.
SensorRetries(queue) == {i \in 1..Len(queue) : queue[i].res = "sensorData"}

\* C36: an answer with an empty items array shows the placeholders and the
\* no-data info alert and sets no retry timer; an answer without an items
\* array and a failed fetch show the placeholders and leave one retry timer
\* for the readings, set behind the timers that were pending.
C36_EmptyWindowIsNoFailure ==
    [][\A r \in InFlight(net, "sensorData") :
            ReadingsDelivered(r)
                => /\ placeholders' = (r.reply.status # "ok" \/ r.reply.items = <<>>)
                   /\ (r.reply.status = "ok" /\ r.reply.items = <<>>)
                        => /\ alerts' = Rendered(<<InfoRecord>>)
                           /\ Cardinality(SensorRetries(timers'))
                                = Cardinality(SensorRetries(timers))
                           /\ \A i \in 1..Len(timers') :
                                timers'[i] = TimerEntry("sensorData", TRUE)
                                    => i <= Len(timers) /\ timers[i] = timers'[i]
                   /\ r.reply.status # "ok"
                        => LET kept == {j \in 1..Len(timers) :
                                            timers[j] # TimerEntry("sensorData", TRUE)}
                           IN  /\ Len(timers') > Cardinality(kept)
                               /\ timers'[Cardinality(kept) + 1] = TimerEntry("sensorData", TRUE)
                               /\ Cardinality(SensorRetries(timers')) = 1]_vars

\* Initialization has ended on an empty window: placeholders and the info
\* alert are shown and the only timer pending is the refresh interval.
C36_Witness ==
    /\ initPc = "done"
    /\ placeholders
    /\ alerts = Rendered(<<InfoRecord>>)
    /\ SensorRetries(timers) = {}
    /\ refreshInterval
    /\ currentProfile \in ProfileBodies
    /\ Len(timers) = 1

\* C37: a DELETE is sent only by a commit that follows the opening of the
\* confirmation: while the confirmation is not open (never opened, closed
\* by its button, Escape or an outside click, or closed after a delete was
\* committed), no step sends a DELETE.
C37_DeleteOnlyAfterOpening ==
    [][~deleteModal.shown
            => \A c \in sent' : c.res # "deleteFeeding"]_vars

====
